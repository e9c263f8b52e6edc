------------------------------- MODULE Fat16 --------------------------------
(***************************************************************************)
(* Reading a FAT16 disk: the disk streamer (src/disk/streamer.c) and the   *)
(* clusters and directories of src/fs/fat/fat16.c, as operators on a fixed *)
(* disk.                                                                   *)
(*                                                                         *)
(* A byte of the disk is named by its position, so that what a read        *)
(* returns says where it was read.  A directory entry is a record of       *)
(* filename and ext, padded with spaces, kind ("file" or "dir"), first     *)
(* cluster and size; a directory is the sequence of its entries up to the  *)
(* first empty one.  Characters are their codes.                           *)
(*                                                                         *)
(* The disk holds what Root and Subdirs say.  Outside of the allocation    *)
(* table a word of it is file data, of which nothing is known: operators   *)
(* that may read one take its value w as a parameter.                      *)
(***************************************************************************)
EXTENDS Integers, Sequences, FiniteSets

CONSTANTS
    SectorSize,           \* MAEROS_SECTOR_SIZE: 512
    sectors_per_cluster,  \* 128
    reserved_sectors,     \* 200
    fat_copies,           \* 2
    sectors_per_fat,      \* 256
    root_dir_entries,     \* 64
    ItemSize,             \* sizeof(struct fat_directory_item): 32
    NameWidth, ExtWidth,  \* sizeof of an entry's filename and ext: 8 and 3
    MAEROS_MAX_PATH,      \* 108
    Word,                 \* 2^32
    Fat,                  \* the allocation table: cluster -> entry
    Root,                 \* the root directory
    Subdirs               \* first cluster of a subdirectory -> that directory

ASSUME SizesAssumption ==
    /\ {SectorSize, sectors_per_cluster, reserved_sectors, ItemSize,
        NameWidth, ExtWidth, MAEROS_MAX_PATH} \subseteq Nat \ {0}
    /\ {fat_copies, sectors_per_fat, root_dir_entries} \subseteq Nat
ASSUME WordAssumption == Word \in Nat \ {0}
ASSUME RootAssumption == Len(Root) <= root_dir_entries
ASSUME FatAssumption == \A c \in DOMAIN Fat : Fat[c] \in Nat /\ Fat[c] < 65536

-----------------------------------------------------------------------------
\* The bytes at n positions from pos on.
Bytes(pos, n) == [k \in 1 .. n |-> pos + k - 1]

\* One sector at a time: with n bytes still to read, what is left of the sector, then the
\* rest.  A request that ends with the sector goes on to the next one for no byte at all.
diskstreamer_read(pos, total) ==
    LET read[n \in 0 .. total] ==
          LET here == pos + (total - n)
              offset == here % SectorSize
              overflow == offset + n >= SectorSize
              total_to_read == IF overflow THEN SectorSize - offset ELSE n
          IN  IF overflow THEN Bytes(here, total_to_read) \o read[n - total_to_read]
              ELSE Bytes(here, n)
    IN  read[total]

-----------------------------------------------------------------------------
\* fat16_get_root_directory: where the root directory starts, and its size in sectors,
\* a last partial one not counted.
root_dir_sector_pos == fat_copies * sectors_per_fat + reserved_sectors
ending_sector_pos == root_dir_sector_pos + (root_dir_entries * ItemSize) \div SectorSize

size_of_cluster_bytes == sectors_per_cluster * SectorSize

\* Also the clusters 0 and 1, which no file has, would lie on the disk.
ASSUME ClustersAssumption == 2 * sectors_per_cluster <= ending_sector_pos

fat16_cluster_to_sector(cluster) == ending_sector_pos + (cluster - 2) * sectors_per_cluster

\* The word at a position of the disk: an entry of the first table, or data.
WordAt(pos, w) ==
    LET start == reserved_sectors * SectorSize
        c == (pos - start) \div 2
    IN  IF pos >= start /\ c \in DOMAIN Fat THEN Fat[c] ELSE w

\* The position is the start of the table TIMES the offset of the entry, in unsigned
\* arithmetic.
fat16_get_fat_entry(cluster, w) ==
    WordAt(((reserved_sectors * SectorSize) * (cluster * 2)) % Word, w)

EIO == -1

\* 0xFF8, 0xFFF, the bad sector 0xFF7, the reserved 0xFF0 and 0xFF6, and unused.
EndMarks == {4088, 4095, 4087, 4080, 4086, 0}

\* The cluster that offset lies in: as many entries of the table are followed as
\* clusters lie before it.
fat16_get_cluster_for_offset(starting_cluster, offset, w) ==
    LET clusters_ahead == offset \div size_of_cluster_bytes
        ahead[i \in 0 .. clusters_ahead] ==
          IF i = 0 THEN starting_cluster
          ELSE LET cluster_to_use == ahead[i - 1]
                   entry == fat16_get_fat_entry(cluster_to_use, w)
               IN  IF cluster_to_use = EIO \/ entry \in EndMarks THEN EIO ELSE entry
    IN  ahead[clusters_ahead]

\* Mutant: every cluster is read from its start.
ReadFromClusterStart(cluster, offset, size, w) ==
    LET read[n \in 0 .. size] ==
          LET o == offset + (size - n)
              c == fat16_get_cluster_for_offset(cluster, o, w)
              starting_pos == fat16_cluster_to_sector(c) * SectorSize
              total_to_read == IF n > size_of_cluster_bytes THEN size_of_cluster_bytes ELSE n
              bytes == diskstreamer_read(starting_pos, total_to_read)
          IN  IF c = EIO THEN [ok |-> FALSE, bytes |-> <<>>]
              ELSE IF n = total_to_read THEN [ok |-> TRUE, bytes |-> bytes]
              ELSE LET rest == read[n - total_to_read]
                   IN  [ok |-> rest.ok, bytes |-> bytes \o rest.bytes]
    IN  read[size]

\* fat16_read_internal, n bytes of size still to read: at most a cluster's worth of bytes
\* from the position of the offset, across the end of the cluster if that is not at its
\* start, then the rest.
fat16_read_internal(cluster, offset, size, w) ==
    LET read[n \in 0 .. size] ==
          LET o == offset + (size - n)
              c == fat16_get_cluster_for_offset(cluster, o, w)
              starting_pos == fat16_cluster_to_sector(c) * SectorSize
                                + (o % size_of_cluster_bytes)
              total_to_read == IF n > size_of_cluster_bytes THEN size_of_cluster_bytes ELSE n
              bytes == diskstreamer_read(starting_pos, total_to_read)
          IN  IF c = EIO THEN [ok |-> FALSE, bytes |-> <<>>]
              ELSE IF n = total_to_read THEN [ok |-> TRUE, bytes |-> bytes]
              ELSE LET rest == read[n - total_to_read]
                   IN  [ok |-> rest.ok, bytes |-> bytes \o rest.bytes]
    IN  read[size]

\* fat16_read: nmemb members of size bytes, the first that fails ends it.  The code takes
\* pos as an int: this is what it does below 2^31.  From there on the offset is negative
\* and the bytes come from before the file.
fat16_read(cluster, pos, size, nmemb, w) ==
    LET members[n \in 0 .. nmemb] ==
          IF n = 0 THEN [ok |-> TRUE, bytes |-> <<>>]
          ELSE LET before == members[n - 1]
                   this == fat16_read_internal(cluster, pos + (n - 1) * size, size, w)
               IN  IF before.ok THEN [ok |-> this.ok, bytes |-> before.bytes \o this.bytes]
                                ELSE before
    IN  members[nmemb]

-----------------------------------------------------------------------------
Blank == 32
Dot == 46
DeletedMark == 229  \* 0xE5

fat_directory_item ==
    [filename : [1 .. NameWidth -> 0 .. 255], ext : [1 .. ExtWidth -> 0 .. 255],
     kind : {"file", "dir"}, cluster : Nat, size : Nat]

\* Whatever lies in a cluster can be read as a directory.
ASSUME DirectoriesAssumption ==
    \A dir \in {Root} \cup {Subdirs[c] : c \in DOMAIN Subdirs} :
        /\ dir \in Seq(fat_directory_item)
        /\ \A i \in 1 .. Len(dir) : dir[i].kind = "dir" => dir[i].cluster \in DOMAIN Subdirs

InUse(item) == item.filename[1] # DeletedMark

\* A field of n characters, none of them in lower case, then spaces.
Padded(field, n) ==
    \A i \in DOMAIN field : IF i <= n THEN field[i] \notin {0, Blank} \cup 97 .. 122
                                      ELSE field[i] = Blank

\* A name as the FAT format has it; only the links "." and ".." have dots in it.
ShortName(item) ==
    /\ \E n \in 1 .. NameWidth : Padded(item.filename, n)
    /\ \E n \in 0 .. ExtWidth : Padded(item.ext, n)
    /\ item.filename[1] # Dot => \A k \in 1 .. NameWidth : item.filename[k] # Dot
    /\ \A k \in 1 .. ExtWidth : item.ext[k] # Dot

\* The root directory and the directories in it, but for where its links lead.
NamedDirectories ==
    {Root} \cup {Subdirs[Root[i].cluster] :
                   i \in {k \in 1 .. Len(Root) : /\ Root[k].kind = "dir" /\ InUse(Root[k])
                                                /\ Root[k].filename[1] # Dot}}

\* In them no two entries in use have the same name.  Entries that have none are pieces
\* of the long names that some systems write before the entry of a file.
ASSUME EntriesAssumption ==
    \A dir \in NamedDirectories : \A i, j \in 1 .. Len(dir) :
        /\ InUse(dir[i]) /\ ShortName(dir[i]) /\ InUse(dir[j]) /\ ShortName(dir[j])
        /\ dir[i].filename = dir[j].filename /\ dir[i].ext = dir[j].ext
        => i = j

\* The number of entries in use: deleted ones are not counted.
fat16_get_total_items_for_directory(dir) ==
    Cardinality({i \in 1 .. Len(dir) : InUse(dir[i])})

\* The characters before the padding.
fat16_to_proper_string(in) ==
    LET padding == {i \in 1 .. Len(in) : in[i] \in {0, Blank}}
    IN  SubSeq(in, 1, CHOOSE n \in 0 .. Len(in) :
                        /\ \A i \in padding : n < i
                        /\ n = Len(in) \/ n + 1 \in padding)

fat16_get_full_relative_filename(item) ==
    fat16_to_proper_string(item.filename)
      \o (IF item.ext[1] \in {0, Blank} THEN <<>>
          ELSE <<Dot>> \o fat16_to_proper_string(item.ext))

tolower(c) == IF c \in 65 .. 90 THEN c + 32 ELSE c

\* The character at position i of a string, which ends with a zero.
CharAt(s, i) == IF i <= Len(s) THEN s[i] ELSE 0

\* Mutant: letters of different case are different.
CompareCase(s1, s2, n) ==
    \A i \in 1 .. n : i <= Len(s1) + 1 => CharAt(s1, i) = CharAt(s2, i)

\* Whether istrncmp returns 0: it compares n characters, but none after the zero of s1.
istrncmp(s1, s2, n) ==
    \A i \in 1 .. n : i <= Len(s1) + 1 => tolower(CharAt(s1, i)) = tolower(CharAt(s2, i))

\* The entry with the name among the first total ones, deleted entries counted and
\* compared like any other; the last if there are several, none if none.
fat16_find_item_in_directory(dir, name) ==
    LET hits == {i \in 1 .. fat16_get_total_items_for_directory(dir) :
                    istrncmp(fat16_get_full_relative_filename(dir[i]), name, MAEROS_MAX_PATH)}
    IN  {dir[i] : i \in {h \in hits : \A k \in hits : k <= h}}

\* The entry that a path's parts lead to from the root, none if a part is missing or
\* leads through a file.  Behind a missing part other than the first the code reads the
\* type of an item through a null pointer: here it finds no directory there.  Loader
\* counts these reads.
fat16_get_directory_entry(parts) ==
    LET item[n \in 1 .. Len(parts)] ==
          IF n = 1 THEN fat16_find_item_in_directory(Root, parts[1])
          ELSE UNION {fat16_find_item_in_directory(Subdirs[d.cluster], parts[n]) :
                        d \in {e \in item[n - 1] : e.kind = "dir"}}
    IN  item[Len(parts)]
=============================================================================
