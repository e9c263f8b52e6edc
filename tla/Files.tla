------------------------------- MODULE Files --------------------------------
(***************************************************************************)
(* Open files: the descriptor table of src/fs/file.c, the path parser of   *)
(* src/fs/pparser.c and what fat16.c keeps for an open file.               *)
(*                                                                         *)
(* The kernel opens, reads and closes files while it loads a program; here *)
(* it may make any call at any time.                                       *)
(*                                                                         *)
(* opened and last are history variables: the path of each descriptor that *)
(* was returned and not closed, and the last open or read with its result. *)
(***************************************************************************)
EXTENDS Fat16

CONSTANTS
    MAEROS_MAX_FILE_DESCRIPTORS,  \* 512
    Names,                        \* what the parts of a path may be
    Paths,                        \* paths that are opened
    DataWords,                    \* what two bytes of file data may be
    Offsets, ReadSizes, Members   \* arguments of fseek and fread

ASSUME LimitAssumption == MAEROS_MAX_FILE_DESCRIPTORS \in Nat \ {0}
ASSUME ArgumentAssumption ==
    /\ Offsets \subseteq 0 .. Word - 1
    /\ ReadSizes \subseteq Nat /\ Members \subseteq Nat
    /\ \A w \in DataWords : w \in Nat /\ w < 65536
    /\ Paths \subseteq Seq(0 .. 255)

VARIABLES
    filesystem,        \* of the disk: "FAT16", or "none" when its signature is wrong
    file_descriptors,  \* descriptor -> its item and position, or NULL
    opened, last

vars == <<filesystem, file_descriptors, opened, last>>

NULL == [item |-> {}, pos |-> 0]
Nothing == [op |-> "none"]

Descriptors == 1 .. MAEROS_MAX_FILE_DESCRIPTORS

Init ==
    /\ filesystem \in {"FAT16", "none"}
    /\ file_descriptors = [fd \in Descriptors |-> NULL]
    /\ opened = [fd \in {} |-> <<>>]
    /\ last = Nothing

-----------------------------------------------------------------------------
Digits == 48 .. 57
Colon == 58
Slash == 47

\* A name is not empty and has no character that ends it.
ASSUME NamesAssumption ==
    \A name \in Names :
        /\ name \in Seq(0 .. 255) /\ name # <<>>
        /\ \A i \in 1 .. Len(name) : name[i] \notin {0, Blank, Slash}

\* A path of two names that fit an entry is not too long: 28 characters of 108.
ASSUME PathAssumption == 3 + 2 * (NameWidth + 1 + ExtWidth) + 1 <= MAEROS_MAX_PATH

\* A drive, then ":/".
pathparser_path_valid_format(path) ==
    Len(path) >= 3 /\ path[1] \in Digits /\ path[2] = Colon /\ path[3] = Slash

\* The characters up to the next slash make a part; the first empty one ends the path.
pathparser_parse_path_part(path) ==
    LET parts[i \in 1 .. Len(path) + 1] ==
          LET end == CHOOSE j \in i .. Len(path) + 1 :
                       /\ j = Len(path) + 1 \/ path[j] = Slash
                       /\ \A k \in i .. j - 1 : path[k] # Slash
              part == SubSeq(path, i, end - 1)
          IN  IF part = <<>> THEN <<>>
              ELSE <<part>> \o (IF end <= Len(path) THEN parts[end + 1] ELSE <<>>)
    IN  parts[4]

\* The parts of a path of the disk, none if the path is not one.
pathparser_parse(path) ==
    IF Len(path) > MAEROS_MAX_PATH \/ ~pathparser_path_valid_format(path)
    THEN <<>> ELSE pathparser_parse_path_part(path)

\* disk_get: there is one disk.
disk_get(path) == path[1] - 48 = 0

\* What fat16_open gives: the item, or none.
fat16_open(parts, mode) == IF mode # "r" THEN {} ELSE fat16_get_directory_entry(parts)

FreeDescriptors == {fd \in Descriptors : file_descriptors[fd] = NULL}

\* The first free entry; the descriptor is its index plus one.
file_new_descriptor == CHOOSE fd \in FreeDescriptors : \A k \in FreeDescriptors : fd <= k

\* The item that fopen finds.
Found(path, mode) ==
    LET parts == pathparser_parse(path)
    IN  IF parts = <<>> \/ ~disk_get(path) \/ filesystem = "none" THEN {}
        ELSE fat16_open(parts, mode)

fopen(path, mode) ==
    /\ Found(path, mode) # {} /\ FreeDescriptors # {}
    /\ LET fd == file_new_descriptor
       IN  /\ file_descriptors' =
                [file_descriptors EXCEPT ![fd] = [item |-> Found(path, mode), pos |-> 0]]
           /\ opened' = [f \in DOMAIN opened \cup {fd} |-> IF f = fd THEN path ELSE opened[f]]
    /\ last' = Nothing
    /\ UNCHANGED filesystem

\* fopen returns 0; with a full table what fat16_open gave is lost.
fopen_fails(path, mode) ==
    /\ Found(path, mode) = {} \/ FreeDescriptors = {}
    /\ last' = [op |-> "refused", path |-> path, mode |-> mode]
    /\ UNCHANGED <<filesystem, file_descriptors, opened>>

-----------------------------------------------------------------------------
\* The descriptors that file_get_descriptor knows: the last one is not among them.
Known == {fd \in Descriptors : fd < MAEROS_MAX_FILE_DESCRIPTORS
                                 /\ file_descriptors[fd] # NULL}

ItemOf(fd) == CHOOSE e \in file_descriptors[fd].item : TRUE

\* Mutant: the descriptor itself is the index, and a neighbour's entry is cleared.
CloseUsesIndex(fd) ==
    /\ fd \in Known
    /\ file_descriptors' = [file_descriptors EXCEPT ![fd + 1] = NULL]
    /\ opened' = [f \in DOMAIN opened \ {fd} |-> opened[f]]
    /\ last' = Nothing
    /\ UNCHANGED filesystem

\* fat16_close never fails.
fclose(fd) ==
    /\ fd \in Known
    /\ file_descriptors' = [file_descriptors EXCEPT ![fd] = NULL]
    /\ opened' = [f \in DOMAIN opened \ {fd} |-> opened[f]]
    /\ last' = Nothing
    /\ UNCHANGED filesystem

\* Only an offset inside the file is accepted; SEEK_CUR adds it to the position, which
\* may leave the file and wraps at Word.  SEEK_END is not implemented.
fseek(fd, offset, whence) ==
    /\ fd \in Known /\ ItemOf(fd).kind = "file" /\ offset < ItemOf(fd).size
    /\ file_descriptors' = [file_descriptors EXCEPT ![fd].pos =
         CASE whence = "SEEK_SET" -> offset
           [] whence = "SEEK_CUR" -> (@ + offset) % Word]
    /\ last' = Nothing
    /\ UNCHANGED <<filesystem, opened>>

\* A read of a file; the position stays.  (A directory is read as if it were an entry,
\* from wherever that leads, and changes nothing here.)
fread(size, nmemb, fd, w) ==
    /\ size # 0 /\ nmemb # 0
    /\ fd \in Known /\ ItemOf(fd).kind = "file"
    /\ last' = [op |-> "read", fd |-> fd, pos |-> file_descriptors[fd].pos,
                result |-> fat16_read(ItemOf(fd).cluster, file_descriptors[fd].pos, size, nmemb, w)]
    /\ UNCHANGED <<filesystem, file_descriptors, opened>>

Next ==
    \/ \E path \in Paths, mode \in {"r", "w"} : fopen(path, mode) \/ fopen_fails(path, mode)
    \/ \E fd \in Descriptors : fclose(fd)
    \/ \E fd \in Descriptors, offset \in Offsets, whence \in {"SEEK_SET", "SEEK_CUR"} :
          fseek(fd, offset, whence)
    \/ \E size \in ReadSizes, nmemb \in Members, fd \in Descriptors, w \in DataWords :
          fread(size, nmemb, fd, w)

Spec == Init /\ [][Next]_vars

-----------------------------------------------------------------------------
\* A reference for names: the entries in use that a directory holds, wherever they are.
Entries(dir) == {dir[i] : i \in {k \in 1 .. Len(dir) : InUse(dir[k])}}

\* How a name is stored: in upper case, with spaces up to the width of its field.
Stored(name, width) ==
    [i \in 1 .. width |-> IF i > Len(name) THEN Blank
                          ELSE IF name[i] \in 97 .. 122 THEN name[i] - 32 ELSE name[i]]

\* The entry is stored under the name: a stem that fits filename and, behind a dot, an
\* extension that fits ext.
HasName(e, name) ==
    \E n \in 1 .. Len(name) :
        LET stem == SubSeq(name, 1, n)
            ext == SubSeq(name, n + 2, Len(name))
        IN  /\ \A i \in 1 .. n : stem[i] # Dot
            /\ n = Len(name) \/ (name[n + 1] = Dot /\ ext # <<>>)
            /\ n <= NameWidth /\ Stored(stem, NameWidth) = e.filename
            /\ Len(ext) <= ExtWidth /\ Stored(ext, ExtWidth) = e.ext

\* What the names lead to, from the root down.
Named(names) ==
    CASE Len(names) = 1 -> {e \in Entries(Root) : HasName(e, names[1])}
      [] Len(names) = 2 ->
           UNION {{e \in Entries(Subdirs[d.cluster]) : HasName(e, names[2])} :
                    d \in {x \in Entries(Root) : HasName(x, names[1]) /\ x.kind = "dir"}}
      [] OTHER -> {}

\* The names of a path of drive 0 as pparser.c:10-12 describes them.
Written(names) ==
    <<48, Colon, Slash>> \o (IF Len(names) = 1 THEN names[1]
                             ELSE names[1] \o <<Slash>> \o names[2])

NameLists == {<<a>> : a \in Names} \cup {<<a, b>> : a \in Names, b \in Names}

\* The code compares every entry with a name: deleted ones, the links "." and "..", and
\* the pieces of long names.  Whether one of those reads as the name.
Misread(name) ==
    \E dir \in NamedDirectories : \E i \in 1 .. Len(dir) :
        /\ ~(InUse(dir[i]) /\ ShortName(dir[i]) /\ dir[i].filename[1] # Dot)
        /\ istrncmp(fat16_get_full_relative_filename(dir[i]), name, MAEROS_MAX_PATH)

\* Until it is closed, a descriptor that was returned stands for the file that its path
\* names, whatever is opened, closed and reused in between.  A path that names nothing is
\* opened only where an entry that is deleted, a link or a piece of a long name reads as
\* one of its names.
HandleIsNamedFile ==
    \A fd \in DOMAIN opened : \A names \in NameLists :
        opened[fd] = Written(names) =>
            \/ Named(names) # {} /\ file_descriptors[fd].item = Named(names)
            \/ \E k \in 1 .. Len(names) : Misread(names[k])

\* Whether deleted entries before one push it out of the part that is searched.
Shifted(dir, e) == \A i \in 1 .. fat16_get_total_items_for_directory(dir) : dir[i] # e

\* fopen(path, "r") is refused only for a reason: the disk has no file system, the table
\* is full, nothing has that name, an entry that is no file reads as one of its names, or
\* deleted entries have shifted the entry or its directory.
RefusedForReason ==
    last.op = "refused" /\ last.mode = "r" =>
        \/ filesystem = "none"
        \/ FreeDescriptors = {}
        \/ \A names \in NameLists : last.path = Written(names) =>
             \/ Named(names) = {}
             \/ \E k \in 1 .. Len(names) : Misread(names[k])
             \/ \E dir \in {Root} \cup {Subdirs[c] : c \in DOMAIN Subdirs} :
                  \E e \in Entries(dir) :
                    Shifted(dir, e) /\ \E k \in 1 .. Len(names) : HasName(e, names[k])

\* A read returns the bytes of the file from its position on, as far as they lie in its
\* first cluster, for every alignment to sectors, any number of members and whatever
\* follows: 64 KB with the disk of boot.asm.
FirstClusterExact ==
    last.op = "read" =>
        LET start == fat16_cluster_to_sector(ItemOf(last.fd).cluster) * SectorSize
            bytes == last.result.bytes
        IN  /\ \A k \in 1 .. Len(bytes) :
                 last.pos + k <= size_of_cluster_bytes => bytes[k] = start + last.pos + k - 1
            /\ ~last.result.ok => last.pos + Len(bytes) >= size_of_cluster_bytes
=============================================================================
