------------------------------- MODULE Loader -------------------------------
(***************************************************************************)
(* Loading a program: process_load_data of src/task/process.c with         *)
(* elf_load, the file layer, the path parser and the FAT16 code below it,  *)
(* one allocation per step, any of which may fail; then the mapping of the *)
(* program, and what is freed when its process ends.                       *)
(*                                                                         *)
(* A path is the sequence of what its parts name, each in the directory    *)
(* before it: "file", "dir" or "none".  A heap object is <<opener, role,   *)
(* part>>; the opener is "elf" for elf_load and "binary" for               *)
(* process_load_binary, which opens the file again.  The other objects of  *)
(* a process are those of ProcessMemory.                                   *)
(*                                                                         *)
(*   held      the objects taken and not freed since the load began        *)
(*   misused   what was done with pointers that own nothing                *)
(*   failures  the allocations that failed since the load began            *)
(***************************************************************************)
EXTENDS Program

CONSTANTS
    MAEROS_MAX_FILE_DESCRIPTORS,  \* 512
    Paths, Programs,              \* paths and the files they lead to
    MaxFailures,                  \* bound on failed allocations per load
    FileAddress, ImageAddress, StackAddress  \* where the heap puts elf_file, image, stack

ASSUME PathsAssumption == Paths \subseteq Seq({"file", "dir", "none"})
ASSUME DescriptorsAssumption == MAEROS_MAX_FILE_DESCRIPTORS \in Nat \ {0}
ASSUME HeapAssumption ==
    \A a \in {FileAddress, ImageAddress, StackAddress} : a \in Addresses /\ paging_is_aligned(a)

\* A file has a size and headers of words; the heap ends before the last page.
ASSUME ProgramsAssumption ==
    \A file \in Programs :
        /\ file.size \in Nat /\ file.phdrs \in Seq(elf32_phdr)
        /\ ImageAddress + file.size <= WordSize - PageSize
ASSUME StackAssumption == StackAddress + StackSize <= WordSize - PageSize

VARIABLES pc, load, file_descriptors, held, misused, failures, directory

vars == <<pc, load, file_descriptors, held, misused, failures, directory>>

Descriptors == 1 .. MAEROS_MAX_FILE_DESCRIPTORS
NoItem == [kind |-> "none", data |-> "ok"]

\* A load before its first fopen: no part parsed, no item found.
NewLoad(path, file, opener) ==
    [path |-> path, file |-> file, opener |-> opener,
     parts |-> 0, n |-> 1, item |-> NoItem, fd |-> 0]

Init ==
    /\ pc = "idle"
    /\ \E path \in Paths, file \in Programs : load = NewLoad(path, file, "elf")
    /\ file_descriptors = {} /\ held = {} /\ misused = {} /\ failures = 0
    /\ directory = paging_new_4gb

-----------------------------------------------------------------------------
Object(role, k) == <<load.opener, role, k>>

Take(role, k) == held' = held \cup {Object(role, k)} /\ UNCHANGED <<failures, misused>>

RunsOut == failures < MaxFailures /\ failures' = failures + 1

Quiet == UNCHANGED <<file_descriptors, directory>>

\* process_load_binary that gives up before it has memory frees program_data_ptr, if the
\* stack happens to hold something else than 0 there.
Garbage == IF load.opener = "binary" THEN {{}, {"uninitialised"}} ELSE {{}}

\* fopen returns 0, and the load gives up.
fopen_fails(left, wrong) ==
    /\ pc' = "idle" /\ held' = left
    /\ \E garbage \in Garbage : misused' = misused \cup wrong \cup garbage

\* elf_load starts with struct elf_file, and goes on without it.
elf_load(path, file) ==
    /\ pc = "idle"
    /\ load' = NewLoad(path, file, "elf")
    /\ pc' = "root" /\ misused' = {}
    /\ \/ held' = {<<"elf", "elf_file", 0>>} /\ failures' = 0
       \/ held' = {} /\ failures' = 1 /\ MaxFailures > 0
    /\ Quiet

pathparser_create_root ==
    /\ pc = "root"
    /\ \/ Take("root", 0) /\ pc' = "string"
       \/ RunsOut /\ fopen_fails(held, {})
    /\ UNCHANGED load /\ Quiet

\* The parser stops; fopen refuses a path without parts.
Parsed(wrong) ==
    IF load.parts = 0 THEN fopen_fails(held, wrong)
    ELSE pc' = "open" /\ misused' = misused \cup wrong /\ UNCHANGED held

\* A string for the next part; without memory the path seems to end here.
pathparser_get_path_part ==
    /\ pc = "string" /\ load.parts < Len(load.path)
    /\ \/ Take("string", load.parts + 1) /\ pc' = "part"
       \/ RunsOut /\ Parsed({})
    /\ UNCHANGED load /\ Quiet

\* The string for the empty rest of the path is freed at once, also if there is none.
EndOfPath ==
    /\ pc = "string" /\ load.parts = Len(load.path)
    /\ \/ Parsed({}) /\ UNCHANGED failures
       \/ RunsOut /\ Parsed({"free of null"})
    /\ UNCHANGED load /\ Quiet

pathparser_parse_path_part ==
    /\ pc = "part"
    /\ \/ Take("part", load.parts + 1) /\ pc' = "string"
          /\ load' = [load EXCEPT !.parts = @ + 1]
       \/ RunsOut /\ Parsed({}) /\ UNCHANGED load
    /\ Quiet

fat16_open ==
    /\ pc = "open"
    /\ \/ Take("fat_descriptor", 0) /\ pc' = "find"
       \/ RunsOut /\ fopen_fails(held, {})
    /\ UNCHANGED load /\ Quiet

-----------------------------------------------------------------------------
\* Mutant: the entries of a directory are not freed with it.
ItemKeepsEntries(k) == {Object(r, k) : r \in {"item", "clone", "directory"}}

\* fat16_fat_item_free of the item of part k: the objects of it that are there, and what
\* is freed that is not.
fat16_fat_item_free(k) == {Object(r, k) : r \in {"item", "clone", "directory", "entries"}}

FreedWrongly ==
    CASE load.item = [kind |-> "file", data |-> "null"] -> {"free of null"}
      [] load.item = [kind |-> "dir", data |-> "freed"] -> {"directory"}
      [] OTHER -> {}

\* What part n names: nothing, if the directory before it could not be read.
Here == IF load.item.data = "ok" THEN load.path[load.n] ELSE "none"

\* When parts follow one that names nothing, the loop reads the type of the item at 0;
\* the first part is checked before the loop.
NullItem == {"null item" : x \in {k \in {load.n} : 1 < k /\ k < load.parts}}

\* The item before is freed, then the descriptor of fat16_open.
NotFound ==
    fopen_fails((held \ fat16_fat_item_free(load.n - 1)) \ {Object("fat_descriptor", 0)},
                FreedWrongly \cup NullItem)

\* The item of part n has taken the place of the one before, which is freed.
NewItem(left, data) ==
    /\ held' = left \ fat16_fat_item_free(load.n - 1)
    /\ misused' = misused \cup FreedWrongly
    /\ LET item == [kind |-> load.path[load.n], data |-> data]
       IN  IF load.n < load.parts
           THEN /\ pc' = IF item.kind = "dir" THEN "find" ELSE "through"
                /\ load' = [load EXCEPT !.item = item, !.n = @ + 1]
           ELSE pc' = "new" /\ load' = [load EXCEPT !.item = item]

fat16_find_item_in_directory ==
    /\ pc = "find"
    /\ \/ Here = "none" /\ NotFound /\ UNCHANGED <<load, failures>>
       \/ Here # "none" /\ RunsOut /\ NotFound /\ UNCHANGED load
       \/ /\ Here # "none" /\ Take("item", load.n) /\ UNCHANGED load
          /\ pc' = IF Here = "dir" THEN "directory" ELSE "clone"
    /\ Quiet

\* Mutant: the type of an item with parts behind it is not looked at.
ThroughFileOpens ==
    /\ pc = "through" /\ pc' = "new"
    /\ UNCHANGED <<load, held, misused, failures>> /\ Quiet

\* Parts behind a file: the item is dropped, not freed.
ThroughFile ==
    /\ pc = "through"
    /\ fopen_fails(held \ {Object("fat_descriptor", 0)}, {})
    /\ UNCHANGED <<load, failures>> /\ Quiet

fat16_clone_directory_item ==
    /\ pc = "clone"
    /\ \/ NewItem(held \cup {Object("clone", load.n)}, "ok") /\ UNCHANGED failures
       \/ RunsOut /\ NewItem(held, "null")
    /\ Quiet

\* The directory, then its entries.  Without memory for the entries the directory is
\* freed and returned all the same.
fat16_load_fat_directory ==
    /\ pc \in {"directory", "entries"}
    /\ \/ pc = "directory" /\ Take("directory", load.n) /\ pc' = "entries" /\ UNCHANGED load
       \/ pc = "directory" /\ RunsOut /\ NewItem(held, "null")
       \/ pc = "entries" /\ NewItem(held \cup {Object("entries", load.n)}, "ok")
          /\ UNCHANGED failures
       \/ pc = "entries" /\ RunsOut /\ NewItem(held \ {Object("directory", load.n)}, "freed")
    /\ Quiet

-----------------------------------------------------------------------------
FreeDescriptors == Descriptors \ file_descriptors

\* The first free entry.  Without memory the entry stays 0 and its number is returned;
\* with a full table what fat16_open gave is lost.
file_new_descriptor ==
    /\ pc = "new"
    /\ IF FreeDescriptors = {}
       THEN fopen_fails(held, {}) /\ UNCHANGED <<load, file_descriptors, failures>>
       ELSE LET fd == CHOOSE d \in FreeDescriptors : \A e \in FreeDescriptors : d <= e
            IN  /\ \/ /\ Take("descriptor", 0)
                      /\ file_descriptors' = file_descriptors \cup {fd}
                   \/ RunsOut /\ UNCHANGED <<held, misused, file_descriptors>>
                /\ load' = [load EXCEPT !.fd = fd] /\ pc' = "image"
    /\ UNCHANGED directory

\* file_get_descriptor does not know the last one.
Known == load.fd \in file_descriptors /\ load.fd < MAEROS_MAX_FILE_DESCRIPTORS

\* Mutant: the entry of the table is not cleared.
CloseKeepsEntry(left, wrong) ==
    /\ held' = left \ (IF Known THEN fat16_fat_item_free(load.n)
                                     \cup {Object("fat_descriptor", 0), Object("descriptor", 0)}
                       ELSE {})
    /\ misused' = misused \cup wrong \cup (IF Known THEN FreedWrongly ELSE {})
    /\ UNCHANGED file_descriptors

\* The item, the descriptor of fat16_open, the entry and the descriptor.
fclose(left, wrong) ==
    /\ held' = left \ (IF Known THEN fat16_fat_item_free(load.n)
                                     \cup {Object("fat_descriptor", 0), Object("descriptor", 0)}
                       ELSE {})
    /\ misused' = misused \cup wrong \cup (IF Known THEN FreedWrongly ELSE {})
    /\ file_descriptors' = IF Known THEN file_descriptors \ {load.fd} ELSE file_descriptors

\* fstat fails for an unknown descriptor and for a directory.  process_load_binary then
\* frees its uninitialised pointer; an image that could not be had is only checked there.
fstat_and_kzalloc ==
    /\ pc = "image"
    /\ IF ~Known \/ load.item.kind = "dir"
       THEN /\ UNCHANGED failures /\ pc' = "idle"
            /\ \E garbage \in Garbage : fclose(held, garbage)
       ELSE \/ Take("image", 0) /\ pc' = "read" /\ UNCHANGED file_descriptors
            \/ RunsOut /\ load.opener = "elf" /\ pc' = "read"
               /\ UNCHANGED <<held, misused, file_descriptors>>
            \/ RunsOut /\ load.opener = "binary" /\ pc' = "idle" /\ fclose(held, {})
    /\ UNCHANGED <<load, directory>>

\* Whether fread succeeds; through a null entry, whose size and cluster are whatever lies
\* at address 0, anything may come back, or nothing.
Reads == IF load.item.data = "null" THEN BOOLEAN ELSE {load.file.readable}

ReadFails ==
    /\ pc = "read" /\ FALSE \in Reads
    /\ fclose(IF load.opener = "binary" THEN held \ {Object("image", 0)} ELSE held, {})
    /\ pc' = "idle"
    /\ UNCHANGED <<load, failures, directory>>

IsElf == load.item.data = "ok" /\ elf_validate_loaded(load.file)

\* An ELF file is loaded; what is none is opened again as a raw binary, and what elf_load
\* took stays.
ReadSucceeds ==
    /\ pc = "read" /\ TRUE \in Reads
    /\ fclose(held, {})
    /\ IF load.opener = "binary" \/ IsElf
       THEN pc' = "loaded" /\ UNCHANGED load
       ELSE pc' = "root" /\ load' = NewLoad(load.path, load.file, "binary")
    /\ UNCHANGED <<failures, directory>>

-----------------------------------------------------------------------------
\* Where the image is: at 0 if there was no memory for it.
Image == IF Object("image", 0) \in held THEN ImageAddress ELSE 0

ptr == CASE load.opener = "binary" -> Image
         [] <<"elf", "elf_file", 0>> \in held /\ load.opener = "elf" -> FileAddress
         [] OTHER -> 0

Mapping ==
    process_map_memory(load.opener, ptr, IF load.opener = "binary" THEN load.file.size ELSE 0,
                       Image, load.file.phdrs, StackAddress)

\* A refused mapping frees the task, and nothing else of the load.
MapProgram ==
    /\ pc = "loaded"
    /\ IF Mapping.ok THEN pc' = "running" /\ directory' = Mapping.dir
                     ELSE pc' = "idle" /\ UNCHANGED directory
    /\ UNCHANGED <<load, file_descriptors, held, misused, failures>>

\* Mutant: a raw binary is freed as if it were also an ELF file.
FreeFallsThrough ==
    /\ pc = "running"
    /\ IF load.opener = "elf" /\ <<"elf", "elf_file", 0>> \notin held
       THEN UNCHANGED <<held, misused>>
       ELSE /\ held' = held \ {Object("image", 0), Object("elf_file", 0)}
            /\ misused' = misused \cup (IF load.opener = "binary" THEN {"pointer"} ELSE {})
    /\ pc' = "idle" /\ directory' = paging_new_4gb
    /\ UNCHANGED <<load, file_descriptors, failures>>

\* The process ends: a raw binary is its image, an ELF file the image and elf_file;
\* without elf_file nothing is freed.
process_free_program_data ==
    /\ pc = "running"
    /\ IF load.opener = "elf" /\ <<"elf", "elf_file", 0>> \notin held
       THEN UNCHANGED <<held, misused>>
       ELSE /\ held' = held \ {Object("image", 0), Object("elf_file", 0)}
            /\ misused' = misused \cup
                 (IF Object("image", 0) \in held THEN {} ELSE {"free of null"})
    /\ pc' = "idle" /\ directory' = paging_new_4gb
    /\ UNCHANGED <<load, file_descriptors, failures>>

Next ==
    \/ \E path \in Paths, file \in Programs : elf_load(path, file)
    \/ pathparser_create_root \/ pathparser_get_path_part \/ EndOfPath
    \/ pathparser_parse_path_part
    \/ fat16_open \/ fat16_find_item_in_directory \/ ThroughFile
    \/ fat16_clone_directory_item \/ fat16_load_fat_directory
    \/ file_new_descriptor \/ fstat_and_kzalloc \/ ReadFails \/ ReadSucceeds
    \/ MapProgram \/ process_free_program_data

Spec == Init /\ [][Next]_vars

-----------------------------------------------------------------------------
\* Roles that depend on the part, and on the opener.
PathObjects(opener) ==
    {<<opener, "root", 0>>} \cup {<<opener, r, k>> : r \in {"string", "part"}, k \in 1 .. Len(load.path)}

\* The openers that came to fopen.
Openers == {"elf", load.opener}

\* The first part that is a file and has parts behind it: what names nothing comes later.
FileInPath(k) ==
    /\ k < Len(load.path) /\ load.path[k] = "file" /\ \A j \in 1 .. k - 1 : load.path[j] = "dir"

\* Whether the path leads to a file.
Leads == /\ load.path # <<>> /\ load.path[Len(load.path)] = "file"
         /\ \A j \in 1 .. Len(load.path) - 1 : load.path[j] = "dir"

\* Whether the path leads to an ELF file with headers that can all be mapped.
Runs == /\ Leads /\ load.file.readable /\ elf_validate_loaded(load.file)
        /\ \A i \in 1 .. Len(load.file.phdrs) : ~HeaderRefused(ImageAddress, load.file.phdrs[i])

\* The parsed path of each fopen, a file in the middle of the path, and elf_file, with the
\* image if there is one, unless an ELF file was loaded and freed.  A raw binary that was
\* read twice leaves the first copy.
Losses ==
    (UNION {PathObjects(o) : o \in Openers})
      \cup {<<"elf", r, k>> : r \in {"item", "clone"}, k \in {j \in 1 .. Len(load.path) : FileInPath(j)}}
      \cup (IF Runs THEN {}
            ELSE {<<"elf", "elf_file", 0>>} \cup {<<"elf", "image", 0>> : x \in {y \in {0} : Leads}})

\* What stays of a load when no allocation failed and its process, if any, has ended:
\* the losses of fopen, fat16_get_directory_entry and process_load_data, and no more.
LossesKnown == pc = "idle" /\ failures = 0 /\ held # {} => held = Losses

\* Whatever allocations fail, a load has at most one file open and closes it: it always
\* gets descriptor 1, and never meets a full table or the last descriptor, which
\* file_get_descriptor refuses and fclose could not close.
DescriptorsClosed ==
    /\ file_descriptors \subseteq {1}
    /\ pc \in {"idle", "root", "loaded", "running"} => file_descriptors = {}

\* As long as memory lasts, a load frees only what it holds, in every error path, for
\* files and directories, ELF files and raw binaries; and fat16_get_directory_entry reads
\* an item at address 0 only for a path that goes on behind a missing name other than
\* its first.
UsesOnlyHeld ==
    failures = 0 /\ misused # {} =>
        /\ misused = {"null item"}
        /\ \E k \in 2 .. Len(load.path) - 1 :
             load.path[k] = "none" /\ \A j \in 1 .. k - 1 : load.path[j] = "dir"

\* Also when memory runs out, a program that runs is the file that the path names, with
\* two exceptions: an allocation that fails looks like the end of a path, so that a path
\* through a file may run that file, and an entry that could not be copied is read at 0.
RunsNamedFile ==
    pc = "running" =>
        \/ Leads /\ load.item.data = "ok"
        \/ failures > 0 /\ load.item.data = "null"
        \/ failures > 0 /\ \E k \in 1 .. load.parts : FileInPath(k)

-----------------------------------------------------------------------------
Loads == {i \in 1 .. Len(load.file.phdrs) : load.file.phdrs[i].p_type = "PT_LOAD"}

\* The pages of the virtual address space that header i is mapped to.
PagesOf(i) ==
    LET h == load.file.phdrs[i]
        n == EndOf(Image, h) - paging_align_to_lower_page(PhysOf(Image, h))
    IN  {(paging_align_to_lower_page(h.p_vaddr) + k) % WordSize :
           k \in {j \in 0 .. n - 1 : paging_is_aligned(j)}}

StackPages == {StackEnd + k : k \in {j \in 0 .. StackSize - 1 : paging_is_aligned(j)}}

\* A segment as a linker writes it: offset and address agree within the page, and what is
\* in the file is in memory; and it ends before the last page.
Sound(h) ==
    /\ h.p_offset % PageSize = h.p_vaddr % PageSize
    /\ h.p_filesz <= h.p_memsz /\ Image + h.p_offset + h.p_memsz <= WordSize - PageSize

\* A running program finds at the address of each byte of a loadable segment that byte of
\* its file, unless another header or the stack takes the page; of a raw binary every
\* byte; and its stack.
SegmentsVisible ==
    pc = "running" =>
        /\ load.opener = "elf" =>
             \A i \in Loads : LET h == load.file.phdrs[i] IN
               \A k \in 0 .. h.p_filesz - 1 :
                  LET virt == (h.p_vaddr + k) % WordSize
                      page == paging_align_to_lower_page(virt)
                  IN  \/ ~Sound(h) \/ page \in StackPages
                      \/ \E j \in 1 .. Len(load.file.phdrs) : j > i /\ page \in PagesOf(j)
                      \/ paging_get_physical_address(directory, virt) = Image + h.p_offset + k
        /\ load.opener = "binary" =>
             \A k \in 0 .. load.file.size - 1 :
               LET virt == (ProgramAddress + k) % WordSize
               IN  \/ paging_align_to_lower_page(virt) \in StackPages
                   \/ paging_get_physical_address(directory, virt) = Image + k
        /\ \A p \in StackPages :
             paging_get(directory, p) = [frame |-> StackAddress + (p - StackEnd), writeable |-> TRUE]

\* Whether all that the headers ask for lies in the file.
WithinFile ==
    \A i \in 1 .. Len(load.file.phdrs) :
        load.file.phdrs[i].p_offset + load.file.phdrs[i].p_memsz <= load.file.size

\* When the segments lie in the file, whatever a program may write is its own: a page of
\* its image or of its stack; and every page that is not claimed maps to itself.
WritesOwnFrames ==
    pc = "running" /\ (load.opener = "elf" => WithinFile) =>
        \A p \in {a \in Addresses : paging_is_aligned(a)} :
            LET e == paging_get(directory, p)
            IN  \/ e = [frame |-> p, writeable |-> FALSE]
                \/ Image <= e.frame /\ e.frame < Image + load.file.size
                \/ StackAddress <= e.frame /\ e.frame < StackAddress + StackSize

\* The extent that elf_file keeps is the least address and the greatest end of the
\* loadable segments, in whatever order the headers come, as long as none is at 0 and
\* none wraps.
ExtentExact ==
    pc = "loaded" /\ load.opener = "elf" /\ Loads # {} =>
        LET x == elf_process_pheaders(Image, load.file.phdrs)
            starts == {load.file.phdrs[i].p_vaddr : i \in Loads}
            ends == {load.file.phdrs[i].p_vaddr + load.file.phdrs[i].p_filesz : i \in Loads}
        IN  0 \notin starts /\ ends \subseteq Addresses =>
               /\ x.base \in starts /\ \A a \in starts : x.base <= a
               /\ x.end \in ends /\ \A a \in ends : a <= x.end

\* Variables without an initial value start at 0 (src/programs/stdlib/src/string.c:120
\* counts on it): what a segment has in memory and not in the file does not lie on bytes
\* of the file.
BssIsZero ==
    pc = "running" /\ load.opener = "elf" =>
        \A i \in Loads : LET h == load.file.phdrs[i] IN
            \A k \in h.p_filesz .. h.p_memsz - 1 :
                LET phys == paging_get_physical_address(directory, h.p_vaddr + k)
                IN  phys < Image \/ Image + load.file.size <= phys
=============================================================================
