# maerOS in TLA+

maerOS is a small 32-bit kernel for one x86 processor: a block heap, paging,
tasks switched by the timer, processes loaded from a FAT16 disk, a PS/2
keyboard, a text console, and ten system calls through interrupt 0x80. This
directory models its core, checks the models with TLC and proves theorems about
them with TLAPS. Paths below are relative to the repository (`src/...`).

## 1. The system

Two things run: user code, which the timer may preempt between any two
instructions, and the kernel, which runs only inside interrupt handlers. Every
gate is an interrupt gate (`idt.c`, type 0xEE), so the processor clears IF on
entry and nothing in the kernel sets it again before it returns to user code: a
handler is one atomic step. What makes the system hard is therefore not
preemption inside the kernel but

- the order in which handlers follow each other: timer ticks, keys, loads,
  exits and faults, in any order;
- pointers that outlive what they point to: the task list, the page tables and
  the allocation tables all keep raw pointers into the heap;
- edges of fixed-size things: the block table, the key ring, the allocation
  table, unsigned counters;
- operations that fail half way: a load allocates a dozen kinds of heap objects
  one after the other, in five layers;
- state that crosses a switch: registers, flags and the page directory of a task
  that other tasks have run after.

| component | state | operations | what makes it correct |
|---|---|---|---|
| kernel heap (`memory/heap/`) | one byte per block: taken, first, has-next | `kmalloc`, `kzalloc`, `kfree` | extents are disjoint; the table says exactly what is held; a free touches only its own chain |
| registers and directories (`task/task.c`, `task/task.asm`, `idt/`) | `task->registers`, the loaded directory | interrupt entry, `task_save_state`, `task_switch`, `task_return` | a task goes on with its own registers in its own address space |
| task list (`task/task.c`) | `task_head`, `task_tail`, `current_task`, `next`/`prev` of each task | `task_new`, `task_free`, `task_next` | the list holds every task in order; no freed task runs; every task gets its turn |
| processes (`task/process.c`) | `processes[12]`, `current_process` | `process_load_switch`, `process_terminate`, `process_inject_arguments` | table and task list agree; the keyboard has an owner; a failed load leaves nothing behind |
| process memory (`task/process.c`, `memory/paging/`) | allocation table, page directory | malloc, free, exit | a process can write exactly the pages it holds |
| keyboard (`keyboard/`) | a ring per process, caps lock | interrupt, `keyboard_push`, `keyboard_pop` | every key once, in order, to the process it was typed for |
| terminal (`kernel.c`) | cursor, video memory | `terminal_writechar`, `terminal_backspace` | the cursor is on the screen and stands behind what was typed |
| interrupts, system calls (`idt/`, `isr80h/`) | callback tables | dispatch | each handler belongs to one of the parts above |
| file layer, path parser (`fs/file.c`, `fs/pparser.c`) | descriptor table | `fopen`, `fread`, `fseek`, `fstat`, `fclose` | a descriptor stands for the file its path names until it is closed |
| FAT16, streamer (`fs/fat/`, `disk/`) | position of each open file; the disk is only read | directory lookup, 8.3 names, cluster chains, sector reads | a read returns the bytes of the file |
| ELF loader (`loader/`) | program headers, extent | `elf_load`, `elf_close` | the extent covers the loadable segments; error paths free what is held |
| paging (`memory/paging/`, `process_map_memory`) | directory and tables | `paging_map_to`, `paging_get_physical_address` | a program sees its segments and stack, and can write nothing else |
| user library (`programs/stdlib/`) | line buffer, `strtok`'s pointer | `peachos_terminal_readline`, `peachos_parse_command`, `maeros_system_run` | the buffer holds what the screen shows; a command has the words of its line |

Interaction: the timer (`idt_clock`) and exit go through the task list; a load
takes blocks of the heap, appends a task, fills a slot and moves the keyboard to
the new process; a key goes to `current_process` while `getkey` reads the ring
of the process of `current_task`; malloc and free change heap, allocation table
and page directory together.

`PROJECT.json` lists the components with what is and is not modelled, and the
hazards, each at its line, with the properties that watch it.

## 2. Modules

| module | role |
|---|---|
| `HeapTable` | the block table and the pure operators of `heap.c` |
| `Heap` | the heap, one step per call |
| `Allocator` | what a block allocator promises: abstract specification of `Heap` |
| `HeapLoops` | the three loops of `heap.c`, one step per iteration; refines `Heap` |
| `HeapProofs` | theorems about the two |
| `TaskList` | the linked list as operators on a list state |
| `Scheduler` | boot, timer, exit, faults, loads; uses `TaskList` |
| `RoundRobin` | the rotation that the steps of `Scheduler` are compared with |
| `Context` | registers and page directory of each task, on top of the steps of `Scheduler` |
| `SchedulerProofs` | theorems about the task list, the process table, the keyboard's owner, registers and directories |
| `Keyboard` | scan codes and key rings: actions without a specification of their own |
| `Console`, `ConsoleProofs` | `Keyboard` and, by INSTANCE, `Scheduler` composed; the theorem on key order |
| `ProcessMemory`, `ProcessMemoryProofs` | heap, allocation tables and page directories together; uses `HeapTable`; its theorems |
| `Terminal` | the console |
| `CommandLine`, `CommandLineProofs` | a program that reads and runs lines on that terminal; theorems about `Terminal` and it |
| `Fat16` | streamer, clusters and directory lookup, as operators on a fixed disk |
| `Files`, `FilesProofs` | descriptor table, path parser, seek and read; uses `Fat16`; its theorems |
| `Program` | page directories, ELF headers and mappings, as operators |
| `Loader`, `LoaderProofs` | a load, allocation by allocation, through all layers; uses `Program`; theorems about both |
| `Induction` | induction over numbers and recursion along them, for the proofs |
| `MC*` | sets for TLC |

Definitions have the names of the C functions they model, and `PROJECT.json`
maps each to its lines. A definition whose comment begins with "Mutant" is not
part of a model: it is a plausible slip in the definition that follows it, and
each property is known to be violated when one of them takes the definition's
place.

**Heap.** `entries` is the table, `live` a history variable: the extents that
callers hold. Address 0 is freed by the kernel itself
(`process_terminate_allocations` frees unused entries too); it becomes a negative
index, so the table's domain goes on below 0 with the bytes of the memory below
the table, the boot sector among them. Bytes behind the table are written by an
overlong allocation; below the kernel nothing of what is modelled reads them, and
they are left out. A request whose marks would reach the kernel at 1M (index 0xF8200,
3.8 GB) is excluded from `Heap` (`ReachAssumption`) and destroys the kernel in
`ProcessMemory`. Arithmetic on sizes is modulo `WordSize` (2^32). `Allocator` promises
all the blocks asked for; the one case where the code gives fewer is an action of its
own, `AllocShort`.

**HeapLoops** has the C locals as variables and refines `Heap`: `table` is the
array at work, `entries` the array as of the last return.

**TaskList/Scheduler.** `kfree` does not clear memory, so a list state keeps the
fields of freed cells; mode "wild" is the execution of a freed task, "dividing" what
comes after a division by zero. A cell can be handed out again: `task_new`
takes any cell that is not allocated. `task_list_remove` does not update the `prev` of
the successor. That does no harm until the successor leaves too and is taken out
through this pointer, and `stale` is a history variable that records exactly this: a
write through a pointer to a freed task, or through a `prev` that does not lead to the
predecessor. The properties of the list hold until then, for exits in any order;
`SchedulerFreedRuns` shows what can follow. `RoundRobin` is the rotation that the code
really implements: an exit passes one task over, since `task_list_remove` and
`task_next` each move the turn on.

**Keyboard.** One scan code of each kind stands for its class. `unread` and `lost`
are history variables: the keys waiting, and whether the ring was overrun. The
byte behind the table that the off-by-one test lets through is a choice.

**ProcessMemory.** Pages and blocks are the same 4096 bytes, and a directory maps
the pool to itself, so a page is named by its block. Each kernel object takes
one block. A load goes as one of the strings in `Loads` says (which file, which
step fails); running out of blocks comes on top of that. Where the code goes on
with an unchecked NULL, the stage becomes "wild" and nothing is promised. So it does
behind a request that destroys the kernel (`ReachesKernel`): one so long that its marks
reach it, or one whose end passes 2^32, so that the zeros of `kzalloc` go on from
address 0 over the block table. A string on a page that the process has freed faults
in the kernel while it is copied: the process is ended, and the buffer of the copy is
lost (`copy_string_faults`). Programs are linked at 0x400000, below the pool (the
`linker.ld` of each), so that mapping their segments changes no page of it.

**Context.** The registers are five groups that the code treats alike: `gp`, `eax`,
`ip`, `esp`, `flags`. Each action is one of `Scheduler` with what it does to the
processor: entry saves the frame in the current task, and the handler ends either
through the frame (everything restored, `eax` the result) or through `task_return`
(everything but the flags from `struct task`). `own` is a history variable: the
registers as the task's own instructions and system calls left them.

**Fat16/Files.** The disk does not change, and a byte of it is named by its position:
what a read returns says where it was read. Names are sequences of character codes,
padded and upper case on the disk, either case in a path. A directory may hold entries
without such a name: the pieces of long names that other systems write, which the code
reads as entries, deleted ones, and the links "." and "..". `Misread` says for which names
one of those is taken for a file. Words outside of the allocation table are file data and
a choice. Directories fit in a cluster. A position of 2^31 or more
becomes a negative `int` in the code (`fat16.c:735`) and not in the model; what is claimed
of reads says nothing about such positions. `kzalloc` succeeds: what a load does when it fails is in `Loader`. Names and bytes are compared
with definitions that do not use the code's operators: `HasName` goes from the path
to the stored form where the code goes from the entry to a string, and
`FirstClusterExact` does its own arithmetic. `opened` and `last` are history variables.

**Program/Loader.** `Program` has the index arithmetic of `paging.c`, the extent of an
ELF file and `process_map_memory`, all modulo the word. `Loader` runs
`process_load_data` one allocation per step, through `elf_load`, `fopen`, the path
parser, FAT16, the descriptor table, `fstat`, `fread`, and again for a raw binary; each
allocation may fail, at most `MaxFailures` times per load. `held` names the heap
objects that were taken and not freed, `misused` what was done with a pointer that
owns nothing (a free of 0, of an uninitialised or a freed pointer, a read through 0).
A path is what its parts name, since the names themselves are in `Files`.

**Terminal.** `line` and `derailed` are history variables: what was typed since
the start of the row, and whether a backspace crossed that start. Rows behind the
screen are written to memory that is not shown, and from `KernelCell` on (row 1843) to
the kernel itself: `overwritten`, after which nothing is followed.

**CommandLine.** The loop that `shell.c` keeps in comments, with the library it calls.
`scommand` is the stack buffer that is parsed, `sp` the static pointer of `strtok`
into it, which survives a parse that ended early. `sp` lies in the bss, which the kernel
does not clear (`LoaderBss`): it starts as 0 or as anything (`Stray`), and `strtok` with
a stray pointer is not followed. In `shell.elf` and `blank.elf` as they are built now the
bytes in its place are padding of the ELF header, and zero. An argument
is cut where its buffer is full (`Argument`, 511 characters). `spoiled`, `failed` and
`before` are history variables; `spoiled` records that a backspace went over the
prompt, or that the cursor has left the prompt's row.

## 3. Runs

Passing runs:

| run | instance | what it shows |
|---|---|---|
| `Heap` | 6 blocks of 4 bytes, 3 bytes below the table, requests of 1, 2, 3 and 7 blocks | `NoOverlap`, `TableExact`, `NullWalkStops`, `OthersUntouched`, refinement of `Allocator` (short runs included) |
| `HeapLoops` | 5 blocks, requests of 1, 2 and 6 | the loops refine `Heap`, end (`CallsReturn`), and walk only their own chain |
| `Context` | 3 slots, 3 cells, exits in any order | own registers, own directory, tables agree, keyboard owned; until a task leaves after its predecessor did: list in order, no freed task runs, rotation, turns for ever once loads and exits stop |
| `Console` | 2 slots, rings of 2, four scan codes | own keys only, in order across wraps |
| `CommandLine` | a screen of 1 x 3, cursor modulo 5, the kernel behind 13 cells, a buffer of 4, arguments of 2 characters | cursor and row contents, buffer as shown, arguments as typed |
| `ProcessMemory` | 12 blocks, 2 slots, 2 table entries, sizes of 1 and 2 blocks and one that destroys the kernel, all six ways a load can go | a process writes exactly its own pages; the allocation table lists exactly them; `struct task` stays mapped; extents disjoint; exit returns everything but `struct process` |
| `Files` | 3 descriptors, sectors of 4 bytes, clusters of 8, positions modulo 15, names of 2 + 1 characters in either case, paths of up to 12 characters, a subdirectory with a link, deleted entries, a piece of a long name, 18 paths | descriptors stand for the named file, with the exceptions of `Misread`; opens refused only for a reason; bytes of the first cluster exact |
| `Loader` | pages of 4 bytes, 4 entries per table, 11 files, 11 paths, 2 failing allocations | descriptors closed, only held objects freed, the named file runs, losses as known, segments and stack visible, own frames writeable, extent exact |

Runs that disagree with a comment or a line of the code (see `findings` in
`PROJECT.json`):

| run | what happens |
|---|---|
| `HeapShort` | the scan hands out a free run at the end of the table that is shorter than the request |
| `SchedulerFreedRuns` | the successor of a removed task keeps its `prev`; with three processes that pointer leads to running a freed task |
| `ContextFlags` | `task_return` pushes the kernel's flags: a task interrupted between a comparison and its jump resumes with other flags |
| `LoaderBss` | the segment of uninitialised variables of `blank.elf` and `shell.elf` is mapped on the ELF header |

Also met while modelling.

- Heap: a request that rounds to zero blocks gets the address of a free
  block, which `malloc(0)` makes writeable for the process (`heap.c:65`).
- Processes: `current_process` is the process with the keyboard and not the one
  that runs (`process.c:13`); a load that fails returns its task and keeps
  everything else it had taken (`process.c:607`); the caller of a successful load
  resumes with the number of the command in `eax`; `strncpy` writes up to three bytes
  behind the path (`isr80h/process.c:57`); a string on a page that the process has freed
  faults in the kernel, and the buffer of the copy is lost (`task.c:184`); a size whose
  end passes 2^32 has `kzalloc` clear the memory from 0 up (`kheap.c:48`).
- Keyboard: after an overrun of the ring `keyboard_pop` returns 0 with keys stored
  (`keyboard.c:107`), so that `OwnKeysInOrder` speaks of rings that were not overrun;
  the test of the scan code lets one code behind the table through (`classic.c:62`),
  and the table lacks NumLock and ScrollLock, so that the keypad is shifted by two
  (`classic.c:33`).
- Terminal: it does not scroll (`kernel.c:319`), so that `LineOnScreen` speaks of the
  rows of the screen, and row 1843 lies in the kernel; a backspace at column 0 wraps the column to 65535
  (`kernel.c:296`), which is why `CursorColumn` has a second case.
- Files: descriptor 512 is handed out and then refused by every call (`file.c:96`),
  which no load meets (`DescriptorsClosed`); the position of a FAT entry is a product
  where a sum is meant (`fat16.c:405`), and an unaligned read runs over the end of its
  cluster (`fat16.c:485`), so that `FirstClusterExact` speaks of the first cluster only;
  deleted directory entries push others out of the search (`fat16.c:613`), one of the
  reasons in `RefusedForReason`; a path with the character 0xE5 opens a deleted entry,
  and a piece of a long name is compared like any entry (`fat16.c:616`), so that "0:/ab"
  opens the one that belongs to a file "b...": the exceptions of `HandleIsNamedFile`;
  the ".." of a directory below the root has cluster 0, which is read as if it were
  data (`fat16.c:386`).
- Loader: every `fopen` loses its parsed path, every raw binary the first copy of its
  image with `elf_file`; a path that goes on behind a missing name reads an item at
  address 0 (`fat16.c:641`). `LossesKnown` and `UsesOnlyHeld` say exactly when.

Bounds. The heap runs have room for three neighbours, a fragment between them
and a request that exceeds the pool; the behaviour depends on the order of runs
of free blocks and not on their number, and the theorems remove the bound. Three
tasks are what a linked list needs for removal at either end and in the middle, for a
successor that is left with an old `prev`, and for an exit that passes a task over; the
theorems are for any number (the kernel has 12). In `Context` three tasks are also enough
for one to be interrupted, for another one to run, call, load and exit, and for its cell
to come back in another place. In the keyboard the order of tasks plays no part: two
processes are the one with the focus and another. Rings, counters and the cursor are small enough to
wrap many times, and a line of three columns with a prompt has both its edges
crossed. The files of `Loader` have their headers in ascending, descending and
overlapping order, on a shared page, on the stack, at 0 and wrapping; the paths end,
break and continue at each of three parts; two failures are what it takes to fail in
`elf_load` and again in `process_load_binary`. In
`ProcessMemory` two processes hold allocations at the same time and reuse each
other's blocks, and the pool is small enough to fill up. In `Files` the positions and
sizes meet every alignment to a sector, both sides of the end of a cluster, and a
full table.

That every task gets its turn whatever the others do is not true of this kernel, and no
run claims it: an exit skips a task, so that processes that keep coming and going can
starve it. `Rotates` says that this is the only departure from the rotation,
`TurnsWhenQuiet` that every task has its turn for ever once loads and exits stop.

Fairness. `Scheduler` and `Context`: weak fairness of `idt_clock`, because the programmable
timer fires for ever and user code runs with interrupts on. `HeapLoops`: weak
fairness of the loop that runs, because nothing interrupts it. `Console` assumes no
fairness: no program of the repository calls `getkey` at present (`shell.c` has its loop
in comments), so nothing is claimed about when a key is read. Every property but
`CallsReturn` and `TurnsWhenQuiet` is a safety property.

## 4. Proofs

`HeapProofs`, for every `TotalBlocks`, `BlockSize`, `LowBlocks`, `WordSize`,
`Sizes` and `BootBytes` that satisfy the ASSUMEs of `HeapTable` and `Heap`, and
under `NonzeroRequests` (every request rounds to at least one block: a request for
none gets a block that is not marked):

- `HeapTypeOK`, `HeapNoOverlap`, `HeapTableExact`, `HeapNullWalkStops`,
  `HeapOthersUntouched`, and `HeapImplementsAllocator`.
- The inductive invariant is `IInv`: type, `NoOverlap`, `TableExact`,
  `NullWalkStops`, and that every live extent covers a block. `NoOverlap` alone is
  not inductive: an allocation is disjoint from the others because the scan
  found its blocks free, and those are free of owners only by `TableExact`;
  `TableExact` in turn survives a free because the chain of an extent ends where
  the extent ends and no other extent lies on the way, and survives
  `heap_free(0)` because of `NullWalkStops`. Requests larger than what is left are
  included, as far as their marks do not reach the kernel. `HeapImplementsAllocator` says of
  them that they are short only at the end of the pool and only when no run is long enough.

Of the loops:

- `LoopsImplementHeap`: the loops implement `Heap`, for every request, zero
  included. The invariant `LInv` says for each loop what it has done up to `i`: the
  scan has seen no candidate before `block_start` and a free run from there, the
  marking has written exactly the entries below `i`, the clearing has cleared a
  chain up to `i`.
- `FreeWalkStaysInside`: between iterations a free stands on its own blocks,
  under `NonzeroRequests`.

`SchedulerProofs`, of `Scheduler` for any slots and any cells for tasks:

- `TablesAgree` and `KeyboardIsOwned`, with exits in any order. The invariant `TInv`
  says that slots and allocated tasks point at each other one to one, that the
  current task and the process with the keyboard exist while user code runs, and
  nothing about `next` and `prev` beyond their type: both theorems hold although the
  links go wrong (`SchedulerFreedRuns`).
- `ListStaysInOrder` and `RunsOnlyLoaded`, with exits in any order. The invariant `NInv`
  adds to `TInv` that, until `stale`, no freed task runs and there is an order
  `q[1], ..., q[n]` of the tasks in which `head`, `tail` and `next` go (`Linked`). `prev`
  is the delicate part (`PrevBehind`): a task behind the head has one, and it leads to the
  predecessor or to no task in front of it, since a cell that was freed can come back only
  at the end of the list. So a removal either finds its predecessor or is one that sets
  `stale`, and until then the tail comes from a `prev` that is right. No restriction on who
  leaves first, and none on the number of slots. `SchedulerFreedRuns` shows that the
  condition on the history cannot be dropped.
- `TasksRotate`: under the same condition every step is one of `RoundRobin`. The mapping is
  `Chain`, the tasks met along the `next` pointers; `ChainIs` shows that it is the order `q`
  of `NInv`. It needs finitely many cells.

and of `Context` for any slots, cells and register values, exits in any order:

- `ContextImplementsScheduler`: every step is one of `Scheduler`. With it
  `ContextTablesAgree`, `ContextKeyboardIsOwned`, `ContextListInOrder`, `ContextRunsLoaded`
  and `ContextRotates` carry the results above over.
- `RegistersAreOwn` and `DirectoryIsOwn`. `OwnRegisters` speaks of the running task
  alone; what makes it inductive (`CInv`) is that every waiting task has its registers in
  its `struct task`, where `task_return` will find them.

`ConsoleProofs`: `KeysAreOwnInOrder`, for every ring size, every word that is a multiple
of it, and any number of slots and scan codes, across all wraps of `head` and `tail`. The
invariant `KInv` is `OwnKeysInOrder` with types: the work is in the lemmas about positions
modulo the ring and modulo the word, which need the ASSUME that one divides the other.

`ProcessMemoryProofs`, for every number of blocks, slots and table entries, every set of
sizes and all ways a load can go, under `NonzeroRequests` and the ASSUMEs of the module
(the pool ends below 2^32, a block size divides 2^32, a size is a word, a kernel object
does not reach the kernel). A request of a program that does leads to stage "wild", and the
theorems speak of the stages before it:

- `MemoryDisjoint`, `WritesOnlyOwn`, `TaskReadable`, `TableExactlyMallocs` and
  `ExitGivesBack`, from `MemoryInvariant`.
- The invariant `MInv` says that the block table describes the live extents exactly, and
  for each slot that its allocation table lists its allocations, each once and with the
  size it was made with (`Listed`), that the pointers of `struct process` are live
  (`Points`), and that the directory of a loaded process is writeable on its
  allocations, and there only (`Mapped`); a slot without a process owns no allocation.
  None of the properties is inductive without the others: a free maps away the pages
  that the *table* says it frees, which are the pages of the extent only if the size
  is the one that was requested; a new allocation is disjoint from `struct task` only
  because the heap knows that extent; and exit frees what table and pointers name, which
  is everything only if they name everything.
- The loops of the model are recursive functions; see the end of this section.

`CommandLineProofs`, for every screen and word with `VGA_WIDTH * VGA_HEIGHT < Word`,
every buffer, argument size and set of keys, until the kernel is overwritten:

- `CursorStaysInColumns` and `LineStaysOnScreen`, of `Terminal`. `LineInv` follows the
  line through rows behind the screen too, where a backspace must still find the cursor
  behind it.
- `LineUsesTerminal`, every step of the command line is a step of `Terminal` or leaves
  it alone, and with it `LineCursorStays` and `LineIsOnScreen`.
- `ReadlineBufferIsShown`, from `BufferInv`: while the line is not spoiled the row holds
  the prompt and behind it the buffer. A line that leaves its row and comes back to it
  through the wrap of the row counter shows something else, which is why leaving the row
  counts as spoiling.
- `ArgumentsAreTheWords`, for every line, every content of the stack, and `sp` 0 or stray at
  the start; with a stray one no command is run. `StrtokFinds`
  shows that `strtok` cuts off the next word of what is left or finds that there is none,
  `TakesToken` that the words up to it are then the arguments up to it; the invariant
  `ParseInv` follows the two through the line (`Parsed`): the words before the token are
  the arguments, and what is behind it is still as it was typed. It also says when `sp`
  is left over from an earlier line, namely only after a `malloc` that failed: without
  that the first `strtok` of a line need not start with the line.

`LoaderProofs`, for all paths, programs, numbers of failing allocations and tables of
more than one descriptor (in a table of one, the descriptor that `fopen` gives out is the
last, which `file_get_descriptor` refuses):

- `LoadsCloseDescriptors`. The invariant `DInv` says when the load has a file open
  (between `file_new_descriptor` and `fclose`) and that its descriptor is then 1,
  although the entry behind it may be missing; without that `fclose` might not know the
  descriptor and leave it open.
- `LoadsUseOnlyHeld` and `LoadsRunNamedFile`. The invariant `PInv` follows a load through
  its phases: how far the path was parsed (`ParsingInv`, `ParsedInv`), that the parts
  before the one looked up are directories (`FollowingInv`), that the item found is the
  one the path names (`FoundInv`), and that nothing is misused while no allocation has
  failed (`MemoryLasts`).

- `LossesAreKnown`, while no allocation fails. The invariant `HInv` names the objects that
  are held in each phase (`HoldsInv`): the path as far as it is parsed, the item and its
  clone while a directory is looked up, the descriptor's objects, `elf_file` and the image;
  and what is left when the load is over (`StaysInv`). `LossesKnown` speaks of the end
  alone; that a phase gives back what it took is only seen from what it held.
- `ProgramsWriteOwnFrames`, `ProgramsSeeSegments` and `ElfExtentsExact`, for every page size,
  number of table entries, number and order of headers, and addresses up to the word.
  The invariant is short, `RunInv`: the directory of a running program is what
  `process_map_memory` computes. The work is in what the loops compute: a mapping of pages
  sets those pages and no other (index arithmetic of directory and table, wrap at the
  word), a later header takes over the pages it shares with an earlier one, and the extent
  is a minimum and a maximum over the headers seen so far. Assumed are the layout
  (`LayoutAssumption`: page-aligned addresses, a stack that ends in the address space, as
  `config.h` has them) and that the heap lies before the last page (`ProgramsAssumption`,
  `StackAssumption`: it is the 100 MB behind 16 MB); `HeapAssumption` says that blocks are
  pages.

`FilesProofs`, for every disk, any sizes of sectors, clusters, entries and names, every
table of descriptors, all paths and all arguments of `fseek` and `fread`:

- `ReadsFirstCluster`, from `FInv`. The streamer returns exactly the bytes asked for
  whatever the alignment; `fat16_read_internal` goes cluster by cluster, so that the first
  piece comes from the first cluster and the following ones, wherever the table leads,
  start behind it; the members of a read follow each other.
- `HandlesNameFiles` and `RefusalsHaveReasons`. `FInv` is `OpenInv` and `LastInv`: an entry
  of the table is taken exactly while its descriptor is open, and holds what the parsed
  path leads to; and what the last call was told still holds. The rest connects the code
  with the reference: the parser gives back the names a path was written from (`ParsedWritten`),
  the comparison of strings finds a name exactly in the entries stored under it
  (`MatchesIs`) unless it is `Misread`, and at most one entry is (`OnlyOne`).
- What is assumed of the disk is what the format demands: fields of bytes, table entries of
  16 bits, directories whose clusters can be read as directories, in the directories that
  names lead to no two files of the same name, and the data region behind at least
  two clusters' worth of sectors (`ClustersAssumption`: 200 reserved sectors and two tables
  on the disk of `boot.asm`). Names are any that are not empty and hold no
  slash, blank or zero byte (`NamesAssumption`). Two names that fit an entry make a path
  below the limit (`PathAssumption`: 28 characters of 108).

Recursion. The loops of the models are recursive functions, and an induction theorem that
takes an operator cannot be used. `Induction` has the least element of a set of numbers and
induction up to or down from a number for sets instead; each proof names the set of numbers
for which the loop has computed what it should (`Recursion`, `StaysIn`, `UpTo`, `Descent`).

`ParseInv`, `HInv`, `RunInv` and `FInv` were checked by TLC too, on the instances of their
runs and with bounded numbers.

Only model-checked is the liveness: `CallsReturn` and `TurnsWhenQuiet` rest on fairness, which is out of the prover's reach. Every invariant and
every action property of a passing run has a theorem, under the conditions given here.
What the violation runs show is found by TLC alone.

## 5. Not modelled

- Tables that are filled once at boot and only read afterwards: the descriptors of
  interrupts and segments, callbacks, commands, file systems; the rest of
  `kernel_main`, which calls one initialisation after the other; `fat16_resolve`'s
  reads of the boot sector (a disk is FAT16 or not, from the start).
- The boot loader, port input and output (sector reads included) and the assembly
  around the handlers beyond what it saves and restores.
- Loops over bytes without state (`memset`, `strlen`, number formatting), colours, what
  the arguments of a process say.
- The heap blocks of a load are counted by block in `ProcessMemory` and by name in
  `Loader`; the two are not composed, so the objects of open files take no blocks of
  the pool.
- Code without a caller: `pathparser_free`, `keyboard_backspace`, ELF sections and
  symbols.
- User programs are replaced by any system call at any time, except in `CommandLine`.

## 6. Plan

1. Done: `HeapTable`, `Heap`, `Allocator`, `HeapLoops`, and their theorems.
2. Done: `TaskList`, `Scheduler`, `RoundRobin`; `Context` on top of them.
3. Done: `Keyboard`, `Console`.
4. Done: `Terminal` and its theorem; `ProcessMemory`; `Fat16` and `Files`, with names.
5. Done: `Program` and `Loader`: mappings, ELF headers, the heap use of the file layer
   with failing allocations, and the theorem on descriptors.
6. Done: `CommandLine` and its theorems.
7. Done: theorems about `Scheduler`, `Context`, `Console`, `ProcessMemory`, `Terminal`,
   `CommandLine` and the heap use of `Loader`, for every value of the constants.
8. Done: theorems about `Files`, the mappings and losses of `Loader`, and the arguments of
   `CommandLine`: every safety property of the passing runs has one.
9. Left: composing `Loader` with the block heap of `ProcessMemory`, so that the objects of
   open files take blocks of the pool; clusters behind the first, once the position of a
   table entry is a sum (`fat16.c:405`); the liveness properties, with a prover for
   fairness.
