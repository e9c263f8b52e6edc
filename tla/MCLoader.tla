------------------------------ MODULE MCLoader ------------------------------
(***************************************************************************)
(* Pages of 4 bytes, 4 entries per table: an address space of 64 bytes.    *)
(* The stack is mapped at 12 .. 19, programs at 24; the heap has put       *)
(* elf_file at 36, the image of 12 bytes at 40, the stack at 52.           *)
(***************************************************************************)
EXTENDS Loader

Header(type, offset, vaddr, filesz, memsz, w) ==
    [p_type |-> type, p_offset |-> offset, p_vaddr |-> vaddr, p_filesz |-> filesz,
     p_memsz |-> memsz, PF_W |-> w]

Text == Header("PT_LOAD", 4, 24, 6, 6, FALSE)
Data == Header("PT_LOAD", 8, 32, 3, 3, TRUE)
Unaligned == Header("PT_LOAD", 9, 33, 2, 2, TRUE)
Bss == Header("PT_LOAD", 0, 32, 0, 2, TRUE)          \* as in blank.elf and shell.elf
LongBss == Header("PT_LOAD", 8, 32, 2, 9, TRUE)      \* more memory than the file has
Shared == Header("PT_LOAD", 4, 24, 3, 3, TRUE)       \* on the page of Text
OnStack == Header("PT_LOAD", 4, 12, 3, 3, FALSE)
AtZero == Header("PT_LOAD", 4, 0, 3, 3, FALSE)
Wrapping == Header("PT_LOAD", 4, 24, 2, 30, TRUE)    \* its end wraps: refused
HighEnd == Header("PT_LOAD", 4, 60, 6, 6, TRUE)      \* its second page is that of address 0
Note == Header("PT_NOTE", 4, 28, 4, 4, FALSE)

File(readable, signature, class, encoding, e_phoff, phdrs) ==
    [readable |-> readable, size |-> 12, signature |-> signature, class |-> class,
     encoding |-> encoding, e_phoff |-> e_phoff, phdrs |-> phdrs]

Elf(phdrs) == File(TRUE, TRUE, 1, 1, 1, phdrs)

\* ELF files with their headers in several orders; raw binaries, among them ELF files of
\* the wrong class, encoding or without headers; a file that cannot be read.
MCPrograms ==
    {Elf(<<Text, Data>>), Elf(<<Unaligned, Text, Note>>), Elf(<<Text, Bss>>),
     Elf(<<LongBss, AtZero>>), Elf(<<Text, Shared, OnStack>>), Elf(<<Text, Wrapping>>),
     Elf(<<AtZero, HighEnd>>),
     File(TRUE, FALSE, 0, 0, 0, <<>>), File(TRUE, TRUE, 2, 1, 1, <<Text>>),
     File(TRUE, TRUE, 1, 2, 1, <<Text>>), File(TRUE, TRUE, 1, 1, 0, <<>>),
     File(FALSE, TRUE, 1, 1, 1, <<Text>>)}

\* Only the program of the repository's own user programs.
MCBlank == {Elf(<<Text, Bss>>)}

MCPaths ==
    {<<>>, <<"file">>, <<"dir">>, <<"none">>, <<"dir", "file">>, <<"dir", "none">>,
     <<"file", "file">>, <<"dir", "none", "file">>, <<"dir", "dir", "file">>,
     <<"none", "file">>, <<"dir", "file", "file">>}
=============================================================================
