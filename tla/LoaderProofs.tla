--------------------------- MODULE LoaderProofs ----------------------------
(***************************************************************************)
(* Proofs about a load, for every set of paths and of programs the disk    *)
(* can hold, every number of failing allocations, and every descriptor     *)
(* table with more than one entry: its descriptors, the heap objects it    *)
(* holds and loses, and the mapping that the program runs in.              *)
(***************************************************************************)
EXTENDS Loader, Induction, SequenceTheorems

\* Between file_new_descriptor and fclose the load has descriptor 1, whose entry is
\* empty if there was no memory for it; at all other times the table is empty.
DInv ==
    /\ "fd" \in DOMAIN load
    /\ file_descriptors \subseteq {1}
    /\ pc \notin {"image", "read"} => file_descriptors = {}
    /\ pc \in {"image", "read"} => load.fd = 1
    /\ pc = "read" => file_descriptors = {1}

\* A new load has the field.
LEMMA NewLoadHasDescriptor ==
    ASSUME NEW path, NEW file, NEW opener
    PROVE  "fd" \in DOMAIN NewLoad(path, file, opener)
  BY Zenon DEF NewLoad

\* Steps that leave table, descriptor and the phases with an open file alone.
LEMMA QuietStep ==
    ASSUME DInv, pc \notin {"image", "read"}, pc' \notin {"image", "read"},
           UNCHANGED file_descriptors, "fd" \in DOMAIN load'
    PROVE  DInv'
  BY DEF DInv

\* The changes that a step makes to a load keep the field.
LEMMA FieldsStay ==
    ASSUME "fd" \in DOMAIN load, NEW x
    PROVE  /\ "fd" \in DOMAIN [load EXCEPT !.parts = @ + 1]
           /\ "fd" \in DOMAIN [load EXCEPT !.item = x]
           /\ "fd" \in DOMAIN [load EXCEPT !.item = x, !.n = @ + 1]
           /\ "fd" \in DOMAIN [load EXCEPT !.fd = x]
           /\ [load EXCEPT !.fd = x].fd = x
<1>1. /\ DOMAIN [load EXCEPT !.parts = @ + 1] = DOMAIN load
      /\ DOMAIN [load EXCEPT !.item = x] = DOMAIN load
      /\ DOMAIN [load EXCEPT !.item = x, !.n = @ + 1] = DOMAIN load
      /\ DOMAIN [load EXCEPT !.fd = x] = DOMAIN load
  BY Zenon
<1>2. [load EXCEPT !.fd = x].fd = x
  BY Zenon
<1> QED
  BY <1>1, <1>2, Zenon

\* An item that takes its place in the path opens no file.
LEMMA NewItemStep ==
    ASSUME DInv, pc \notin {"image", "read"}, NEW left, NEW data, NewItem(left, data),
           UNCHANGED file_descriptors
    PROVE  DInv'
<1>0. "fd" \in DOMAIN load
  BY DEF DInv
<1>1. pc' \in {"find", "through", "new"}
  BY DEF NewItem
<1>2. "fd" \in DOMAIN load'
  BY <1>0, FieldsStay, Zenon DEF NewItem
<1> QED
  BY <1>1, <1>2, QuietStep

\* With the first descriptor and a table of more than one entry fclose empties the table.
LEMMA CloseEmpties ==
    ASSUME DInv, pc \in {"image", "read"}, MAEROS_MAX_FILE_DESCRIPTORS > 1,
           NEW left, NEW wrong, fclose(left, wrong)
    PROVE  file_descriptors' = {}
<1>1. load.fd = 1 /\ file_descriptors \subseteq {1}
  BY DEF DInv
<1>2. file_descriptors' = IF Known THEN file_descriptors \ {1} ELSE file_descriptors
  BY <1>1 DEF fclose
<1>3. Known <=> 1 \in file_descriptors
  BY <1>1, DescriptorsAssumption DEF Known
<1> QED
  BY <1>1, <1>2, <1>3

\* From an empty table the first descriptor is 1.
LEMMA FirstDescriptor ==
    ASSUME file_descriptors = {}
    PROVE  (CHOOSE d \in FreeDescriptors : \A e \in FreeDescriptors : d <= e) = 1
<1>1. FreeDescriptors = Descriptors /\ 1 \in Descriptors
  BY DescriptorsAssumption DEF FreeDescriptors, Descriptors
<1>2. \A e \in Descriptors : e \in Nat /\ 1 <= e
  BY DescriptorsAssumption DEF Descriptors
<1>3. \A d \in Descriptors : (\A e \in Descriptors : d <= e) => d = 1
  BY <1>1, <1>2
<1> QED
  BY <1>1, <1>2, <1>3

\* Every step preserves the invariant.
LEMMA DInvStep ==
    ASSUME MAEROS_MAX_FILE_DESCRIPTORS > 1
    PROVE  DInv /\ [Next]_vars => DInv'
<1> SUFFICES ASSUME DInv, [Next]_vars PROVE DInv'
  OBVIOUS
<1>0. "fd" \in DOMAIN load
  BY DEF DInv
<1>1. ASSUME NEW path \in Paths, NEW file \in Programs, elf_load(path, file) PROVE DInv'
  BY <1>1, NewLoadHasDescriptor, QuietStep DEF elf_load, Quiet
<1>2. CASE pathparser_create_root
  BY <1>0, <1>2, QuietStep DEF pathparser_create_root, fopen_fails, Quiet
<1>3. CASE pathparser_get_path_part \/ EndOfPath
  BY <1>0, <1>3, QuietStep DEF pathparser_get_path_part, EndOfPath, Parsed, fopen_fails, Quiet
<1>4. CASE pathparser_parse_path_part
  <2>1. pc \notin {"image", "read"} /\ pc' \notin {"image", "read"} /\ UNCHANGED file_descriptors
    BY <1>4 DEF pathparser_parse_path_part, Parsed, fopen_fails, Quiet
  <2>2. load' = load \/ load' = [load EXCEPT !.parts = @ + 1]
    BY <1>4, Zenon DEF pathparser_parse_path_part
  <2>3. "fd" \in DOMAIN load'
    BY <1>0, <2>2, FieldsStay, Zenon
  <2> QED
    BY <2>1, <2>3, QuietStep
<1>5. CASE fat16_open \/ ThroughFile
  BY <1>0, <1>5, QuietStep DEF fat16_open, ThroughFile, fopen_fails, Quiet
<1>6. CASE fat16_find_item_in_directory
  BY <1>0, <1>6, QuietStep DEF fat16_find_item_in_directory, NotFound, fopen_fails, Quiet
<1>7. CASE fat16_clone_directory_item
  <2>1. pc \notin {"image", "read"} /\ UNCHANGED file_descriptors
    BY <1>7 DEF fat16_clone_directory_item, Quiet
  <2>2. PICK left, data : NewItem(left, data)
    BY <1>7, Zenon DEF fat16_clone_directory_item
  <2> QED
    BY <2>1, <2>2, NewItemStep
<1>8. CASE fat16_load_fat_directory
  <2>1. pc \notin {"image", "read"} /\ UNCHANGED file_descriptors
    BY <1>8 DEF fat16_load_fat_directory, Quiet
  <2>2. \/ pc' = "entries" /\ UNCHANGED load
        \/ \E left, data : NewItem(left, data)
    BY <1>8, Zenon DEF fat16_load_fat_directory
  <2>3. CASE pc' = "entries" /\ UNCHANGED load
    BY <1>0, <2>1, <2>3, QuietStep
  <2>4. CASE \E left, data : NewItem(left, data)
    BY <2>1, <2>4, NewItemStep
  <2> QED
    BY <2>2, <2>3, <2>4
<1>9. CASE file_new_descriptor
  <2>1. pc = "new" /\ file_descriptors = {}
    BY <1>9 DEF file_new_descriptor, DInv
  <2>2. FreeDescriptors = Descriptors /\ 1 \in Descriptors
    BY <2>1, DescriptorsAssumption DEF FreeDescriptors, Descriptors
  <2> DEFINE first == CHOOSE d \in FreeDescriptors : \A e \in FreeDescriptors : d <= e
  <2>3. first = 1
    BY <2>1, FirstDescriptor
  <2>4. /\ load' = [load EXCEPT !.fd = first] /\ pc' = "image"
        /\ file_descriptors' \in {file_descriptors, file_descriptors \cup {first}}
    <3>1. FreeDescriptors # {}
      BY <2>2
    <3> QED
      BY <1>9, <3>1, Zenon DEF file_new_descriptor
  <2>5. "fd" \in DOMAIN load' /\ load'.fd = 1
    BY <1>0, <2>3, <2>4, FieldsStay, Zenon
  <2> QED
    BY <2>1, <2>3, <2>4, <2>5 DEF DInv
<1>10. CASE fstat_and_kzalloc
  <2>1. pc = "image" /\ UNCHANGED load
    BY <1>10 DEF fstat_and_kzalloc
  <2>2. CASE pc' = "idle"
    <3>1. \E left, wrong : fclose(left, wrong)
      BY <1>10, <2>2, Zenon DEF fstat_and_kzalloc
    <3>2. file_descriptors' = {}
      BY <2>1, <3>1, CloseEmpties
    <3> QED
      BY <1>0, <2>1, <2>2, <3>2 DEF DInv
  <2>3. CASE pc' # "idle"
    <3>1. pc' = "read" /\ UNCHANGED file_descriptors /\ Known
      BY <1>10, <2>3 DEF fstat_and_kzalloc
    <3> QED
      BY <1>0, <2>1, <3>1 DEF DInv, Known
  <2> QED
    BY <2>2, <2>3
<1>11. CASE ReadFails \/ ReadSucceeds
  <2>1. pc = "read" /\ pc' \in {"idle", "loaded", "root"}
    BY <1>11 DEF ReadFails, ReadSucceeds
  <2>2. \E left, wrong : fclose(left, wrong)
    BY <1>11, Zenon DEF ReadFails, ReadSucceeds
  <2>3. file_descriptors' = {}
    BY <2>1, <2>2, CloseEmpties
  <2>4. "fd" \in DOMAIN load'
    BY <1>0, <1>11, NewLoadHasDescriptor, Zenon DEF ReadFails, ReadSucceeds
  <2> QED
    BY <2>1, <2>3, <2>4 DEF DInv
<1>12. CASE MapProgram \/ process_free_program_data
  BY <1>0, <1>12, QuietStep DEF MapProgram, process_free_program_data
<1>13. CASE UNCHANGED vars
  BY <1>13 DEF vars, DInv
<1> QED
  BY <1>1, <1>2, <1>3, <1>4, <1>5, <1>6, <1>7, <1>8, <1>9, <1>10, <1>11, <1>12, <1>13 DEF Next

\* A load always gets descriptor 1 and closes it, whatever paths, programs and failing
\* allocations there are: the descriptor that file_get_descriptor refuses is never
\* handed out by a load, and no load meets a full table.
THEOREM LoadsCloseDescriptors ==
    ASSUME MAEROS_MAX_FILE_DESCRIPTORS > 1
    PROVE  Spec => []DescriptorsClosed
<1>1. Init => DInv
  BY NewLoadHasDescriptor DEF Init, DInv
<1>2. DInv /\ [Next]_vars => DInv'
  BY DInvStep
<1>3. DInv => DescriptorsClosed
  BY DEF DInv, DescriptorsClosed
<1> QED
  BY <1>1, <1>2, <1>3, PTL DEF Spec

-----------------------------------------------------------------------------
Items == [kind : {"file", "dir", "none"}, data : {"ok", "null", "freed"}]

LoadState ==
    [path : Paths, file : Programs, opener : {"elf", "binary"},
     parts : Nat, n : Nat, item : Items, fd : {0, 1}]

\* The phases of a load: the path is parsed, then followed, then the file is open.
Parsing == {"root", "string", "part"}
Following == {"find", "directory", "clone", "entries"}
Found == {"new", "image", "read", "loaded", "running"}

\* The parser is at part load.parts, and nothing has been looked up.
ParsingInv ==
    /\ load.parts <= Len(load.path) /\ load.n = 1 /\ load.item = NoItem
    /\ pc = "root" => load.parts = 0
    /\ pc = "part" => load.parts < Len(load.path)

\* A path that was parsed: all of it, unless an allocation failed.
ParsedInv ==
    /\ load.parts \in 1 .. Len(load.path) /\ load.n \in 1 .. load.parts
    /\ load.parts < Len(load.path) => failures > 0
    /\ failures = 0 => load.item.data = "ok"

\* The parts before the one that is looked up are directories.
DirsBefore == \A j \in 1 .. load.n - 1 : load.path[j] = "dir"

FollowingInv ==
    /\ DirsBefore
    /\ pc \in {"directory", "entries"} => load.path[load.n] = "dir"
    /\ pc = "clone" => load.path[load.n] = "file"

\* The last part was found.
FoundInv ==
    /\ DirsBefore /\ load.n = load.parts
    /\ load.item.kind = load.path[load.n] /\ load.item.kind \in {"file", "dir"}
    /\ load.item.data = "freed" => load.item.kind = "dir"
    /\ pc \in {"read", "loaded", "running"} => load.item.kind = "file"

\* As long as memory lasts: nothing was misused, a raw binary is a file that elf_load has
\* read, its descriptor is open and its image there.
MemoryLasts ==
    failures = 0 /\ pc # "idle" =>
        /\ misused = {}
        /\ load.opener = "binary" => Leads
        /\ pc = "image" => file_descriptors = {1}
        /\ pc \in {"read", "loaded", "running"} => Object("image", 0) \in held

PInv ==
    /\ DInv
    /\ load \in LoadState /\ failures \in Nat
    /\ pc \in Parsing => ParsingInv
    /\ pc \notin Parsing \cup {"idle"} => ParsedInv
    /\ pc = "open" => load.n = 1 /\ load.item = NoItem
    /\ pc \in Following => FollowingInv
    /\ pc = "through" => load.n > 1 /\ load.path[load.n - 1] = "file"
    /\ pc \in Found => FoundInv
    /\ MemoryLasts
    /\ UsesOnlyHeld

\* What the invariant says of the types.
LEMMA LoadTypes ==
    ASSUME PInv
    PROVE  /\ load \in LoadState /\ load.path \in Seq({"file", "dir", "none"})
           /\ Len(load.path) \in Nat /\ load.parts \in Nat /\ load.n \in Nat
           /\ load.item \in Items /\ failures \in Nat
           /\ \A j \in 1 .. Len(load.path) : load.path[j] \in {"file", "dir", "none"}
<1>1. load \in LoadState /\ failures \in Nat
  BY DEF PInv
<1>2. load.path \in Seq({"file", "dir", "none"})
  BY <1>1, PathsAssumption DEF LoadState
<1> QED
  BY <1>1, <1>2 DEF LoadState

\* A load that starts.
LEMMA NewLoadFacts ==
    ASSUME NEW path \in Paths, NEW file \in Programs, NEW opener \in {"elf", "binary"}
    PROVE  LET l == NewLoad(path, file, opener)
           IN  /\ l \in LoadState /\ l.path = path /\ l.opener = opener
               /\ l.parts = 0 /\ l.n = 1 /\ l.item = NoItem
  BY DEF NewLoad, LoadState, NoItem, Items

\* After a failed allocation nothing is said of what is freed.
LEMMA FailureExcuses ==
    ASSUME failures' \in Nat, failures' > 0
    PROVE  MemoryLasts' /\ UsesOnlyHeld'
<1>1. failures' # 0
  OBVIOUS
<1> QED
  BY <1>1 DEF MemoryLasts, UsesOnlyHeld

\* As long as memory lasts, nothing was misused before the load ends.
LEMMA NothingMisused ==
    ASSUME misused' = {}
    PROVE  UsesOnlyHeld'
  BY DEF UsesOnlyHeld

\* A load that gives up, or whose process ends.
LEMMA IdleStep ==
    ASSUME PInv, DInv', pc' = "idle", load' = load, failures' \in Nat,
           failures' > 0 \/ UsesOnlyHeld'
    PROVE  PInv'
<1>1. UsesOnlyHeld'
  BY FailureExcuses
<1> QED
  BY <1>1 DEF PInv, Parsing, Following, Found, MemoryLasts

\* An allocation that fails makes the count positive.
LEMMA RunsOutFacts ==
    ASSUME failures \in Nat, RunsOut
    PROVE  failures' \in Nat /\ failures' > 0
  BY DEF RunsOut

\* As long as memory lasts, no free of an item goes wrong.
LEMMA FreedRightly ==
    ASSUME load.item \in Items, load.item.data = "ok"
    PROVE  FreedWrongly = {}
<1>1. load.item # [kind |-> "file", data |-> "null"] /\ load.item # [kind |-> "dir", data |-> "freed"]
  OBVIOUS
<1> QED
  BY <1>1 DEF FreedWrongly

\* A load that gives up in fopen, memory lasting, and misuses nothing.
LEMMA GivesUp ==
    ASSUME PInv, pc # "idle", NEW left, fopen_fails(left, {}), load.opener # "binary",
           failures = 0
    PROVE  UsesOnlyHeld'
<1>1. misused = {}
  BY DEF PInv, MemoryLasts
<1>2. Garbage = {{}}
  BY DEF Garbage
<1>3. misused' = {}
  BY <1>1, <1>2 DEF fopen_fails
<1> QED
  BY <1>3 DEF UsesOnlyHeld

\* The parser stops.
LEMMA ParsedStep ==
    ASSUME PInv, DInv', pc \in {"string", "part"}, load' = load, NEW wrong, Parsed(wrong),
           failures' \in Nat,
           failures' > 0 \/ (failures' = failures /\ wrong = {} /\ load.parts = Len(load.path))
    PROVE  PInv'
<1>0. /\ ParsingInv /\ load.path \in Seq({"file", "dir", "none"})
      /\ Len(load.path) \in Nat /\ load.parts \in Nat /\ load \in LoadState /\ pc # "idle"
  BY LoadTypes DEF PInv, Parsing
<1>1. CASE load.parts = 0
  <2>1. fopen_fails(held, wrong) /\ pc' = "idle"
    BY <1>1 DEF Parsed, fopen_fails
  <2>2. ASSUME ~(failures' > 0) PROVE UsesOnlyHeld'
    <3>1. failures = 0 /\ wrong = {} /\ load.path = <<>>
      BY <1>0, <1>1, <2>2
    <3>2. load.opener # "binary"
      BY <1>0, <3>1 DEF PInv, MemoryLasts, Leads
    <3> QED
      BY <1>0, <2>1, <3>1, <3>2, GivesUp
  <2> QED
    BY <2>1, <2>2, IdleStep
<1>2. CASE load.parts # 0
  <2>1. pc' = "open" /\ misused' = misused \cup wrong
    BY <1>2 DEF Parsed
  <2>2. ParsedInv'
    BY <1>0, <1>2 DEF ParsingInv, ParsedInv, NoItem
  <2>3. MemoryLasts' /\ UsesOnlyHeld'
    <3>1. CASE failures' > 0
      BY <3>1, FailureExcuses
    <3>2. CASE ~(failures' > 0)
      <4>1. failures' = failures /\ failures = 0 /\ misused' = misused
        BY <2>1, <3>2
      <4>2. misused = {} /\ (load.opener = "binary" => Leads)
        BY <1>0, <4>1 DEF PInv, MemoryLasts
      <4>3. load'.opener = "binary" => Leads'
        BY <4>2 DEF Leads
      <4> QED
        BY <2>1, <4>1, <4>2, <4>3, NothingMisused DEF MemoryLasts
    <3> QED
      BY <3>1, <3>2
  <2> QED
    BY <1>0, <2>1, <2>2, <2>3 DEF PInv, ParsingInv, Parsing, Following, Found
<1> QED
  BY <1>1, <1>2

\* What matters of MemoryLasts when the load goes on.
LEMMA GoesOn ==
    ASSUME PInv, pc # "idle", failures' \in Nat, load'.path = load.path,
           load'.opener = load.opener,
           failures' > 0 \/ (failures' = failures /\ misused' = misused),
           failures' = 0 /\ pc' = "image" => file_descriptors' = {1},
           failures' = 0 /\ pc' \in {"read", "loaded", "running"} => Object("image", 0)' \in held'
    PROVE  MemoryLasts' /\ UsesOnlyHeld'
<1>1. CASE failures' > 0
  BY <1>1, FailureExcuses
<1>2. CASE ~(failures' > 0)
  <2>1. failures' = 0 /\ failures = 0 /\ misused' = misused
    BY <1>2
  <2>2. misused = {} /\ (load.opener = "binary" => Leads)
    BY <2>1 DEF PInv, MemoryLasts
  <2>3. load'.opener = "binary" => Leads'
    BY <2>2 DEF Leads
  <2> QED
    BY <2>1, <2>2, <2>3, NothingMisused DEF MemoryLasts
<1> QED
  BY <1>1, <1>2

\* An item takes its place in the path.
LEMMA NewItemInv ==
    ASSUME PInv, DInv', pc \in {"clone", "directory", "entries"}, NEW left,
           NEW data \in {"ok", "null", "freed"}, NewItem(left, data),
           data = "freed" => load.path[load.n] = "dir",
           failures' \in Nat,
           failures' > 0 \/ (failures' = failures /\ data = "ok")
    PROVE  PInv'
<1> DEFINE item == [kind |-> load.path[load.n], data |-> data]
<1>0. /\ load \in LoadState /\ Len(load.path) \in Nat /\ load.parts \in Nat /\ load.n \in Nat
      /\ load.item \in Items /\ pc # "idle"
  BY LoadTypes
<1>1. /\ load.parts \in 1 .. Len(load.path) /\ load.n \in 1 .. load.parts
      /\ load.parts < Len(load.path) => failures > 0
      /\ failures = 0 => load.item.data = "ok"
      /\ DirsBefore /\ load.path[load.n] \in {"file", "dir"}
  BY DEF PInv, ParsedInv, FollowingInv, Parsing, Following
<1>2. item \in Items /\ item.kind = load.path[load.n] /\ item.data = data
  BY <1>1 DEF Items
<1>3. /\ misused' = misused \cup FreedWrongly
      /\ IF load.n < load.parts
         THEN /\ pc' = IF item.kind = "dir" THEN "find" ELSE "through"
              /\ load' = [load EXCEPT !.item = item, !.n = @ + 1]
         ELSE pc' = "new" /\ load' = [load EXCEPT !.item = item]
  BY DEF NewItem
<1> HIDE DEF item
<1>4. failures = 0 => FreedWrongly = {}
  BY <1>0, <1>1, FreedRightly
<1>5. failures' > 0 \/ (failures' = failures /\ misused' = misused)
  BY <1>3, <1>4 DEF PInv
<1>6. /\ load' \in LoadState /\ load'.path = load.path /\ load'.opener = load.opener
      /\ load'.parts = load.parts /\ load'.item = item
      /\ load'.n = IF load.n < load.parts THEN load.n + 1 ELSE load.n
  <2>1. CASE load.n < load.parts
    <3>1. load' = [[load EXCEPT !.item = item] EXCEPT !.n = @ + 1]
      BY <1>3, <2>1, Zenon
    <3> DEFINE l == [load EXCEPT !.item = item]
    <3>2. /\ l \in LoadState /\ l.path = load.path /\ l.opener = load.opener
          /\ l.parts = load.parts /\ l.item = item /\ l.n = load.n
      BY <1>0, <1>2 DEF LoadState
    <3>3. load' = [l EXCEPT !.n = l.n + 1]
      BY <3>1
    <3> HIDE DEF l
    <3> QED
      BY <1>0, <2>1, <3>2, <3>3 DEF LoadState
  <2>2. CASE ~(load.n < load.parts)
    <3>1. load' = [load EXCEPT !.item = item]
      BY <1>3, <2>2
    <3> QED
      BY <1>0, <1>2, <2>2, <3>1 DEF LoadState
  <2> QED
    BY <2>1, <2>2
<1>7. ParsedInv'
  <2>1. failures' = 0 => data = "ok" /\ failures = 0
    OBVIOUS
  <2>2. load.parts < Len(load.path) => failures' > 0
    BY <1>1 DEF PInv
  <2> QED
    BY <1>0, <1>1, <1>2, <1>6, <2>1, <2>2 DEF ParsedInv
<1>8. CASE load.n < load.parts
  <2>1. pc' \in {"find", "through"} /\ load'.n = load.n + 1
    BY <1>3, <1>6, <1>8
  <2>2. MemoryLasts' /\ UsesOnlyHeld'
    BY <1>0, <1>5, <1>6, <2>1, GoesOn
  <2>3. CASE pc' = "find"
    <3>1. load.path[load.n] = "dir"
      BY <1>2, <1>3, <1>8, <2>3
    <3>2. FollowingInv'
      <4>1. \A j \in 1 .. load.n : load.path[j] = "dir"
        BY <1>0, <1>1, <3>1 DEF DirsBefore
      <4>2. load'.n - 1 = load.n
        BY <1>0, <2>1
      <4> QED
        BY <1>6, <2>3, <4>1, <4>2 DEF FollowingInv, DirsBefore
    <3> QED
      BY <1>6, <1>7, <2>2, <2>3, <3>2 DEF PInv, Parsing, Following, Found
  <2>4. CASE pc' = "through"
    <3>1. load.path[load.n] = "file"
      BY <1>1, <1>2, <1>3, <1>8, <2>4
    <3>2. load'.n > 1 /\ load'.path[load'.n - 1] = "file"
      BY <1>0, <1>1, <1>6, <2>1, <3>1
    <3> QED
      BY <1>6, <1>7, <2>2, <2>4, <3>2 DEF PInv, Parsing, Following, Found
  <2> QED
    BY <2>1, <2>3, <2>4
<1>9. CASE ~(load.n < load.parts)
  <2>1. pc' = "new" /\ load'.n = load.n /\ load.n = load.parts
    BY <1>0, <1>1, <1>3, <1>6, <1>9
  <2>2. MemoryLasts' /\ UsesOnlyHeld'
    BY <1>0, <1>5, <1>6, <2>1, GoesOn
  <2>3. FoundInv'
    BY <1>1, <1>2, <1>6, <2>1 DEF FoundInv, DirsBefore
  <2> QED
    BY <1>6, <1>7, <2>1, <2>2, <2>3 DEF PInv, Parsing, Following, Found
<1> QED
  BY <1>8, <1>9

\* A file that is followed as long as memory lasts is found: at the end of the path there
\* is a file, and before it only directories.
LEMMA FoundLeads ==
    ASSUME PInv, pc \in Found, failures = 0, load.item.kind = "file"
    PROVE  Leads
<1>1. ParsedInv /\ FoundInv /\ Len(load.path) \in Nat /\ load.parts \in Nat /\ load.n \in Nat
      /\ load.path \in Seq({"file", "dir", "none"})
  BY LoadTypes DEF PInv, Found, Parsing
<1>2. load.n = Len(load.path) /\ load.path # <<>>
  BY <1>1 DEF ParsedInv, FoundInv
<1> QED
  BY <1>1, <1>2 DEF Leads, FoundInv, DirsBefore

\* fclose as long as memory lasts.
LEMMA ClosesRightly ==
    ASSUME PInv, pc \in {"image", "read"}, failures = 0, NEW left, fclose(left, {})
    PROVE  misused' = {}
<1>1. misused = {} /\ load.item \in Items /\ load.item.data = "ok"
  BY LoadTypes DEF PInv, MemoryLasts, ParsedInv, Parsing
<1>2. FreedWrongly = {}
  BY <1>1, FreedRightly
<1> QED
  BY <1>1, <1>2 DEF fclose

\* elf_load starts.
LEMMA StartStep ==
    ASSUME PInv, DInv', NEW path \in Paths, NEW file \in Programs, elf_load(path, file)
    PROVE  PInv'
<1>1. /\ load' \in LoadState /\ load'.path = path /\ load'.opener = "elf"
      /\ load'.parts = 0 /\ load'.n = 1 /\ load'.item = NoItem
  BY NewLoadFacts DEF elf_load
<1>2. pc' = "root" /\ misused' = {} /\ failures' \in {0, 1}
  BY DEF elf_load
<1>3. Len(load'.path) \in Nat
  BY <1>1, PathsAssumption
<1>4. ParsingInv'
  BY <1>1, <1>2, <1>3 DEF ParsingInv
<1>5. MemoryLasts' /\ UsesOnlyHeld'
  BY <1>1, <1>2, NothingMisused DEF MemoryLasts
<1> QED
  BY <1>1, <1>2, <1>4, <1>5 DEF PInv, Parsing, Following, Found

\* The steps of the path parser.
LEMMA ParserStep ==
    ASSUME PInv, DInv',
           pathparser_create_root \/ pathparser_get_path_part \/ EndOfPath \/ pathparser_parse_path_part
    PROVE  PInv'
<1>0. /\ ParsingInv /\ Len(load.path) \in Nat /\ load.parts \in Nat /\ load \in LoadState
      /\ pc # "idle" /\ pc \in Parsing /\ failures \in Nat
  BY LoadTypes DEF PInv, Parsing, pathparser_create_root, pathparser_get_path_part, EndOfPath,
                   pathparser_parse_path_part
<1>1. CASE pathparser_create_root
  <2>0. load' = load
    BY <1>1 DEF pathparser_create_root
  <2>1. CASE Take("root", 0) /\ pc' = "string"
    <3>1. failures' = failures /\ misused' = misused
      BY <2>1 DEF Take
    <3>2. MemoryLasts' /\ UsesOnlyHeld'
      BY <1>0, <2>0, <2>1, <3>1, GoesOn
    <3>3. ParsingInv'
      BY <1>0, <2>0, <2>1 DEF ParsingInv
    <3> QED
      BY <1>0, <2>0, <2>1, <3>1, <3>2, <3>3 DEF PInv, Parsing, Following, Found
  <2>2. CASE RunsOut /\ fopen_fails(held, {})
    BY <1>0, <2>0, <2>2, RunsOutFacts, IdleStep DEF fopen_fails
  <2> QED
    BY <1>1, <2>1, <2>2 DEF pathparser_create_root
<1>2. CASE pathparser_get_path_part
  <2>0. load' = load /\ pc = "string" /\ load.parts < Len(load.path)
    BY <1>2 DEF pathparser_get_path_part
  <2>1. CASE Take("string", load.parts + 1) /\ pc' = "part"
    <3>1. failures' = failures /\ misused' = misused
      BY <2>1 DEF Take
    <3>2. MemoryLasts' /\ UsesOnlyHeld'
      BY <1>0, <2>0, <2>1, <3>1, GoesOn
    <3>3. ParsingInv'
      BY <1>0, <2>0, <2>1 DEF ParsingInv
    <3> QED
      BY <1>0, <2>0, <2>1, <3>1, <3>2, <3>3 DEF PInv, Parsing, Following, Found
  <2>2. CASE RunsOut /\ Parsed({})
    BY <1>0, <2>0, <2>2, RunsOutFacts, ParsedStep
  <2> QED
    BY <1>2, <2>1, <2>2 DEF pathparser_get_path_part
<1>3. CASE EndOfPath
  <2>0. load' = load /\ pc = "string" /\ load.parts = Len(load.path)
    BY <1>3 DEF EndOfPath
  <2>1. CASE Parsed({}) /\ UNCHANGED failures
    BY <1>0, <2>0, <2>1, ParsedStep
  <2>2. CASE RunsOut /\ Parsed({"free of null"})
    BY <1>0, <2>0, <2>2, RunsOutFacts, ParsedStep
  <2> QED
    BY <1>3, <2>1, <2>2 DEF EndOfPath
<1>4. CASE pathparser_parse_path_part
  <2>0. pc = "part"
    BY <1>4 DEF pathparser_parse_path_part
  <2>1. CASE Take("part", load.parts + 1) /\ pc' = "string" /\ load' = [load EXCEPT !.parts = @ + 1]
    <3>1. failures' = failures /\ misused' = misused
      BY <2>1 DEF Take
    <3>2. /\ load' \in LoadState /\ load'.path = load.path /\ load'.opener = load.opener
          /\ load'.parts = load.parts + 1 /\ load'.n = load.n /\ load'.item = load.item
      BY <1>0, <2>1 DEF LoadState
    <3>3. MemoryLasts' /\ UsesOnlyHeld'
      BY <1>0, <2>1, <3>1, <3>2, GoesOn
    <3>4. ParsingInv'
      BY <1>0, <2>0, <2>1, <3>2 DEF ParsingInv
    <3> QED
      BY <1>0, <2>1, <3>1, <3>2, <3>3, <3>4 DEF PInv, Parsing, Following, Found
  <2>2. CASE RunsOut /\ Parsed({}) /\ UNCHANGED load
    BY <1>0, <2>0, <2>2, RunsOutFacts, ParsedStep
  <2> QED
    BY <1>4, <2>1, <2>2 DEF pathparser_parse_path_part
<1> QED
  BY <1>1, <1>2, <1>3, <1>4

\* fat16_open.
LEMMA OpenStep ==
    ASSUME PInv, DInv', fat16_open
    PROVE  PInv'
<1>0. /\ ParsedInv /\ Len(load.path) \in Nat /\ load.parts \in Nat /\ load \in LoadState
      /\ pc = "open" /\ failures \in Nat /\ load' = load /\ load.n = 1
  BY LoadTypes DEF PInv, Parsing, fat16_open
<1>1. CASE Take("fat_descriptor", 0) /\ pc' = "find"
  <2>1. failures' = failures /\ misused' = misused
    BY <1>1 DEF Take
  <2>2. MemoryLasts' /\ UsesOnlyHeld'
    BY <1>0, <1>1, <2>1, GoesOn
  <2>3. FollowingInv' /\ ParsedInv'
    BY <1>0, <1>1, <2>1 DEF FollowingInv, DirsBefore, ParsedInv
  <2> QED
    BY <1>0, <1>1, <2>1, <2>2, <2>3 DEF PInv, Parsing, Following, Found
<1>2. CASE RunsOut /\ fopen_fails(held, {})
  BY <1>0, <1>2, RunsOutFacts, IdleStep DEF fopen_fails
<1> QED
  BY <1>1, <1>2 DEF fat16_open

\* A part that names nothing, memory lasting: all that can go wrong is the item at 0.
LEMMA NotFoundUses ==
    ASSUME PInv, pc = "find", failures = 0, failures' = 0, Here = "none", NotFound, load' = load
    PROVE  UsesOnlyHeld'
<1>0. /\ ParsedInv /\ FollowingInv /\ Len(load.path) \in Nat /\ load.parts \in Nat /\ load.n \in Nat
      /\ load.item \in Items /\ misused = {} /\ (load.opener = "binary" => Leads)
  BY LoadTypes DEF PInv, MemoryLasts, Parsing, Following
<1>1. load.item.data = "ok" /\ load.parts = Len(load.path) /\ load.n \in 1 .. Len(load.path)
  BY <1>0 DEF ParsedInv
<1>2. load.path[load.n] = "none"
  BY <1>1 DEF Here
<1>3. load.opener # "binary"
  BY <1>0, <1>1, <1>2 DEF Leads
<1>4. FreedWrongly = {} /\ Garbage = {{}}
  BY <1>0, <1>1, <1>3, FreedRightly DEF Garbage
<1>5. misused' = NullItem
  BY <1>0, <1>4 DEF NotFound, fopen_fails
<1>6. CASE 1 < load.n /\ load.n < load.parts
  <2>1. load.n \in 2 .. Len(load.path) - 1
    BY <1>0, <1>1, <1>6
  <2>2. NullItem = {"null item"}
    BY <1>6, Zenon DEF NullItem
  <2>3. \A j \in 1 .. load.n - 1 : load.path[j] = "dir"
    BY <1>0 DEF FollowingInv, DirsBefore
  <2> QED
    BY <1>2, <1>5, <2>1, <2>2, <2>3 DEF UsesOnlyHeld
<1>7. CASE ~(1 < load.n /\ load.n < load.parts)
  BY <1>5, <1>7 DEF NullItem, UsesOnlyHeld
<1> QED
  BY <1>6, <1>7

\* fat16_find_item_in_directory.
LEMMA FindStep ==
    ASSUME PInv, DInv', fat16_find_item_in_directory
    PROVE  PInv'
<1>0. /\ ParsedInv /\ FollowingInv /\ Len(load.path) \in Nat /\ load.parts \in Nat /\ load.n \in Nat
      /\ load \in LoadState /\ pc = "find" /\ failures \in Nat
      /\ \A j \in 1 .. Len(load.path) : load.path[j] \in {"file", "dir", "none"}
  BY LoadTypes DEF PInv, Parsing, Following, fat16_find_item_in_directory
<1>1. CASE Here = "none" /\ NotFound /\ UNCHANGED <<load, failures>>
  <2>1. pc' = "idle"
    BY <1>1 DEF NotFound, fopen_fails
  <2>2. failures' > 0 \/ UsesOnlyHeld'
    BY <1>0, <1>1, NotFoundUses
  <2> QED
    BY <1>0, <1>1, <2>1, <2>2, IdleStep
<1>2. CASE RunsOut /\ NotFound /\ UNCHANGED load
  BY <1>0, <1>2, RunsOutFacts, IdleStep DEF NotFound, fopen_fails
<1>3. CASE /\ Here # "none" /\ Take("item", load.n) /\ UNCHANGED load
           /\ pc' = IF Here = "dir" THEN "directory" ELSE "clone"
  <2>1. failures' = failures /\ misused' = misused /\ load' = load /\ pc' \in {"directory", "clone"}
    BY <1>3 DEF Take
  <2>2. Here = load.path[load.n] /\ Here \in {"file", "dir"}
    BY <1>0, <1>3 DEF Here, ParsedInv
  <2>3. MemoryLasts' /\ UsesOnlyHeld'
    BY <1>0, <2>1, GoesOn
  <2>4. FollowingInv' /\ ParsedInv'
    BY <1>0, <1>3, <2>1, <2>2 DEF FollowingInv, DirsBefore, ParsedInv
  <2> QED
    BY <1>0, <2>1, <2>3, <2>4 DEF PInv, Parsing, Following, Found
<1> QED
  BY <1>1, <1>2, <1>3 DEF fat16_find_item_in_directory

\* A file with parts behind it.
LEMMA ThroughStep ==
    ASSUME PInv, DInv', ThroughFile
    PROVE  PInv'
<1>0. /\ ParsedInv /\ Len(load.path) \in Nat /\ load.parts \in Nat /\ load.n \in Nat
      /\ pc = "through" /\ load.n > 1 /\ load.path[load.n - 1] = "file" /\ failures \in Nat
      /\ pc' = "idle" /\ load' = load /\ failures' = failures
  BY LoadTypes DEF PInv, Parsing, ThroughFile, fopen_fails
<1>1. ASSUME failures = 0 PROVE UsesOnlyHeld'
  <2>1. load.n - 1 \in 1 .. Len(load.path) - 1
    BY <1>0 DEF ParsedInv
  <2>2. load.opener # "binary"
    BY <1>0, <1>1, <2>1 DEF PInv, MemoryLasts, Leads
  <2> QED
    BY <1>0, <1>1, <2>2, GivesUp DEF ThroughFile
<1> QED
  BY <1>0, <1>1, IdleStep

\* The item of a part.
LEMMA ItemStep ==
    ASSUME PInv, DInv', fat16_clone_directory_item \/ fat16_load_fat_directory
    PROVE  PInv'
<1>0. /\ ParsedInv /\ FollowingInv /\ load \in LoadState /\ failures \in Nat
      /\ pc \in {"clone", "directory", "entries"}
  BY LoadTypes DEF PInv, Parsing, Following, fat16_clone_directory_item, fat16_load_fat_directory
<1>1. CASE pc = "directory" /\ Take("directory", load.n) /\ pc' = "entries" /\ UNCHANGED load
  <2>1. failures' = failures /\ misused' = misused /\ load' = load
    BY <1>1 DEF Take
  <2>2. MemoryLasts' /\ UsesOnlyHeld'
    BY <1>0, <1>1, <2>1, GoesOn
  <2>3. FollowingInv' /\ ParsedInv'
    BY <1>0, <1>1, <2>1 DEF FollowingInv, DirsBefore, ParsedInv
  <2> QED
    BY <1>0, <1>1, <2>1, <2>2, <2>3 DEF PInv, Parsing, Following, Found
<1>2. CASE UNCHANGED failures /\ \E left : NewItem(left, "ok")
  <2>1. PICK left : NewItem(left, "ok")
    BY <1>2
  <2>2. failures' \in Nat /\ failures' = failures
    BY <1>0, <1>2
  <2> QED
    BY <1>0, <2>1, <2>2, NewItemInv
<1>3. CASE RunsOut /\ \E left : NewItem(left, "null")
  <2>1. PICK left : NewItem(left, "null")
    BY <1>3
  <2>2. failures' \in Nat /\ failures' > 0
    BY <1>0, <1>3, RunsOutFacts
  <2> QED
    BY <1>0, <2>1, <2>2, NewItemInv
<1>4. CASE pc = "entries" /\ RunsOut /\ \E left : NewItem(left, "freed")
  <2>1. PICK left : NewItem(left, "freed")
    BY <1>4
  <2>2. failures' \in Nat /\ failures' > 0
    BY <1>0, <1>4, RunsOutFacts
  <2>3. load.path[load.n] = "dir"
    BY <1>0, <1>4 DEF FollowingInv
  <2> QED
    BY <1>0, <2>1, <2>2, <2>3, NewItemInv
<1> QED
  BY <1>1, <1>2, <1>3, <1>4, Zenon DEF fat16_clone_directory_item, fat16_load_fat_directory

\* file_new_descriptor.
LEMMA DescriptorStep ==
    ASSUME PInv, DInv', file_new_descriptor
    PROVE  PInv'
<1>0. /\ ParsedInv /\ FoundInv /\ load \in LoadState /\ failures \in Nat /\ pc = "new"
      /\ file_descriptors = {}
  BY LoadTypes DEF PInv, DInv, Parsing, Found, file_new_descriptor
<1> DEFINE first == CHOOSE d \in FreeDescriptors : \A e \in FreeDescriptors : d <= e
<1>1. FreeDescriptors # {}
  BY <1>0, DescriptorsAssumption DEF FreeDescriptors, Descriptors
<1>2. /\ load' = [load EXCEPT !.fd = first] /\ pc' = "image"
      /\ \/ Take("descriptor", 0) /\ file_descriptors' = file_descriptors \cup {first}
         \/ RunsOut /\ UNCHANGED misused
  BY <1>1, Zenon DEF file_new_descriptor
<1>3. first = 1
  BY <1>0, FirstDescriptor
<1> HIDE DEF first
<1>4. /\ load' \in LoadState /\ load'.path = load.path /\ load'.opener = load.opener
      /\ load'.parts = load.parts /\ load'.n = load.n /\ load'.item = load.item
  BY <1>0, <1>2, <1>3 DEF LoadState
<1>5. failures' \in Nat /\ (failures' > 0 \/ (failures' = failures /\ file_descriptors' = {1}))
      /\ misused' = misused /\ (failures' = 0 => failures = 0)
  <2>1. CASE Take("descriptor", 0) /\ file_descriptors' = file_descriptors \cup {first}
    BY <1>0, <1>3, <2>1 DEF Take
  <2>2. CASE RunsOut /\ UNCHANGED misused
    BY <1>0, <2>2, RunsOutFacts
  <2> QED
    BY <1>2, <2>1, <2>2
<1>6. MemoryLasts' /\ UsesOnlyHeld'
  BY <1>0, <1>2, <1>4, <1>5, GoesOn
<1>7. ParsedInv'
  BY <1>0, <1>4, <1>5 DEF ParsedInv
<1>8. FoundInv'
  BY <1>0, <1>2, <1>4 DEF FoundInv, DirsBefore
<1> QED
  BY <1>2, <1>4, <1>5, <1>6, <1>7, <1>8 DEF PInv, Parsing, Following, Found

\* The size and the memory for the image.
LEMMA ImageStep ==
    ASSUME MAEROS_MAX_FILE_DESCRIPTORS > 1, PInv, DInv', fstat_and_kzalloc
    PROVE  PInv'
<1>0. /\ ParsedInv /\ FoundInv /\ load \in LoadState /\ failures \in Nat /\ pc = "image"
      /\ load' = load /\ load.fd = 1
  BY LoadTypes DEF PInv, DInv, Parsing, Found, fstat_and_kzalloc
<1>1. failures = 0 => Known
  BY <1>0 DEF PInv, MemoryLasts, Known
<1>2. CASE ~Known \/ load.item.kind = "dir"
  <2>1. failures' = failures /\ pc' = "idle" /\ \E garbage \in Garbage : fclose(held, garbage)
    BY <1>2 DEF fstat_and_kzalloc
  <2>2. ASSUME failures = 0 PROVE UsesOnlyHeld'
    <3>1. load.path[load.parts] = "dir" /\ load.parts = Len(load.path)
      BY <1>0, <1>1, <1>2, <2>2, LoadTypes DEF FoundInv, ParsedInv
    <3>2. load.opener # "binary"
      BY <1>0, <2>2, <3>1 DEF PInv, MemoryLasts, Leads
    <3>3. fclose(held, {})
      BY <2>1, <3>2 DEF Garbage
    <3>4. misused' = {}
      BY <1>0, <2>2, <3>3, ClosesRightly
    <3> QED
      BY <3>4, NothingMisused
  <2> QED
    BY <1>0, <2>1, <2>2, IdleStep
<1>3. CASE Known /\ load.item.kind # "dir"
  <2>0. load.item.kind = "file"
    BY <1>0, <1>3 DEF FoundInv
  <2>1. CASE Take("image", 0) /\ pc' = "read"
    <3>1. failures' = failures /\ misused' = misused /\ Object("image", 0)' \in held'
      BY <1>0, <2>1 DEF Take, Object
    <3>2. MemoryLasts' /\ UsesOnlyHeld'
      BY <1>0, <2>1, <3>1, GoesOn
    <3>3. ParsedInv' /\ FoundInv'
      BY <1>0, <2>0, <2>1, <3>1 DEF ParsedInv, FoundInv, DirsBefore
    <3> QED
      BY <1>0, <2>1, <3>1, <3>2, <3>3 DEF PInv, Parsing, Following, Found
  <2>2. CASE RunsOut /\ pc' = "read" /\ UNCHANGED misused
    <3>1. failures' \in Nat /\ failures' > 0
      BY <1>0, <2>2, RunsOutFacts
    <3>2. ParsedInv'
      BY <1>0, <3>1 DEF ParsedInv
    <3>3. FoundInv'
      BY <1>0, <2>0, <2>2 DEF FoundInv, DirsBefore
    <3>4. MemoryLasts' /\ UsesOnlyHeld'
      BY <3>1, FailureExcuses
    <3> QED
      BY <1>0, <2>2, <3>1, <3>2, <3>3, <3>4 DEF PInv, Parsing, Following, Found
  <2>3. CASE RunsOut /\ pc' = "idle"
    BY <1>0, <2>3, RunsOutFacts, IdleStep
  <2> QED
    BY <1>3, <2>1, <2>2, <2>3 DEF fstat_and_kzalloc
<1> QED
  BY <1>0, <1>2, <1>3

\* The file is read and closed.
LEMMA ReadStep ==
    ASSUME PInv, DInv', ReadFails \/ ReadSucceeds
    PROVE  PInv'
<1>0. /\ ParsedInv /\ FoundInv /\ load \in LoadState /\ failures \in Nat /\ pc = "read"
      /\ failures' = failures /\ load.item.kind = "file"
  BY LoadTypes DEF PInv, Parsing, Found, FoundInv, ReadFails, ReadSucceeds
<1>1. CASE ReadFails
  <2>1. pc' = "idle" /\ load' = load /\ \E left : fclose(left, {})
    BY <1>1, Zenon DEF ReadFails
  <2>2. failures = 0 => UsesOnlyHeld'
    BY <1>0, <2>1, ClosesRightly, NothingMisused
  <2> QED
    BY <1>0, <2>1, <2>2, IdleStep
<1>2. CASE ReadSucceeds
  <2>0. fclose(held, {})
    BY <1>2 DEF ReadSucceeds
  <2>1. failures = 0 => misused' = {} /\ misused = {} /\ Leads
    <3>1. failures = 0 => misused = {}
      BY <1>0 DEF PInv, MemoryLasts
    <3>2. failures = 0 => Leads
      BY <1>0, FoundLeads DEF Found
    <3> QED
      BY <1>0, <2>0, <3>1, <3>2, ClosesRightly
  <2>2. CASE pc' = "loaded" /\ UNCHANGED load
    <3>1. failures = 0 => Object("image", 0)' \in held'
      <4>1. failures = 0 => Object("image", 0) \in held
        BY <1>0 DEF PInv, MemoryLasts
      <4>2. Object("image", 0) \notin fat16_fat_item_free(load.n)
                \cup {Object("fat_descriptor", 0), Object("descriptor", 0)}
        BY DEF fat16_fat_item_free, Object
      <4>3. Object("image", 0) \in held => Object("image", 0) \in held'
        BY <2>0, <4>2 DEF fclose
      <4> QED
        BY <2>2, <4>1, <4>3 DEF Object
    <3>2. MemoryLasts' /\ UsesOnlyHeld'
      BY <1>0, <2>1, <2>2, <3>1, GoesOn
    <3>3. ParsedInv' /\ FoundInv'
      BY <1>0, <2>2 DEF ParsedInv, FoundInv, DirsBefore
    <3> QED
      BY <1>0, <2>2, <3>2, <3>3 DEF PInv, Parsing, Following, Found
  <2>3. CASE pc' = "root" /\ load' = NewLoad(load.path, load.file, "binary")
    <3>0. load.path \in Paths /\ load.file \in Programs
      BY <1>0 DEF LoadState
    <3>1. /\ load' \in LoadState /\ load'.path = load.path /\ load'.opener = "binary"
          /\ load'.parts = 0 /\ load'.n = 1 /\ load'.item = NoItem
      BY <2>3, <3>0, NewLoadFacts
    <3>2. ParsingInv'
      BY <2>3, <3>1, LoadTypes DEF ParsingInv
    <3>3. MemoryLasts' /\ UsesOnlyHeld'
      <4>1. CASE failures = 0
        <5>1. misused' = {} /\ Leads'
          BY <2>1, <3>1, <4>1 DEF Leads
        <5> QED
          BY <2>3, <5>1, NothingMisused DEF MemoryLasts
      <4>2. CASE failures # 0
        BY <1>0, <4>2, FailureExcuses
      <4> QED
        BY <4>1, <4>2
    <3> QED
      BY <1>0, <2>3, <3>1, <3>2, <3>3 DEF PInv, Parsing, Following, Found
  <2> QED
    BY <1>2, <2>2, <2>3 DEF ReadSucceeds
<1> QED
  BY <1>1, <1>2

\* The program is mapped, or its process ends.
LEMMA ProcessStep ==
    ASSUME PInv, DInv', MapProgram \/ process_free_program_data
    PROVE  PInv'
<1>0. /\ ParsedInv /\ FoundInv /\ load \in LoadState /\ failures \in Nat
      /\ pc \in {"loaded", "running"} /\ failures' = failures /\ load' = load
  BY LoadTypes DEF PInv, Parsing, Found, MapProgram, process_free_program_data
<1>1. failures = 0 => misused = {} /\ Object("image", 0) \in held
  BY <1>0 DEF PInv, MemoryLasts
<1>2. CASE pc' = "idle"
  <2>1. failures = 0 => misused' = {}
    BY <1>1 DEF MapProgram, process_free_program_data
  <2> QED
    BY <1>0, <1>2, <2>1, IdleStep, NothingMisused
<1>3. CASE pc' = "running" /\ held' = held /\ misused' = misused
  <2>1. MemoryLasts' /\ UsesOnlyHeld'
    BY <1>0, <1>1, <1>3, GoesOn DEF Object
  <2>2. ParsedInv' /\ FoundInv'
    BY <1>0, <1>3 DEF ParsedInv, FoundInv, DirsBefore
  <2> QED
    BY <1>0, <1>3, <2>1, <2>2 DEF PInv, Parsing, Following, Found
<1> QED
  BY <1>2, <1>3 DEF MapProgram, process_free_program_data

\* Every step preserves the invariant.
LEMMA PInvStep ==
    ASSUME MAEROS_MAX_FILE_DESCRIPTORS > 1
    PROVE  PInv /\ [Next]_vars => PInv'
<1> SUFFICES ASSUME PInv, [Next]_vars PROVE PInv'
  OBVIOUS
<1>1. DInv'
  BY DInvStep DEF PInv
<1>2. CASE UNCHANGED vars
  <2>1. pc' = pc /\ load' = load /\ failures' = failures
    BY <1>2 DEF vars
  <2>2. ParsingInv' = ParsingInv /\ ParsedInv' = ParsedInv /\ FollowingInv' = FollowingInv
        /\ FoundInv' = FoundInv
    BY <2>1 DEF ParsingInv, ParsedInv, FollowingInv, FoundInv, DirsBefore
  <2>3. MemoryLasts' = MemoryLasts /\ UsesOnlyHeld' = UsesOnlyHeld
    BY <1>2 DEF vars, MemoryLasts, UsesOnlyHeld, Leads, Object
  <2> QED
    BY <1>1, <2>1, <2>2, <2>3 DEF PInv
<1> QED
  BY <1>1, <1>2, StartStep, ParserStep, OpenStep, FindStep, ThroughStep, ItemStep,
     DescriptorStep, ImageStep, ReadStep, ProcessStep DEF Next

\* The first state.
LEMMA PInvInit == Init => PInv
<1> SUFFICES ASSUME Init PROVE PInv
  OBVIOUS
<1>1. DInv
  BY NewLoadHasDescriptor DEF Init, DInv
<1>2. load \in LoadState
  BY NewLoadFacts DEF Init
<1> QED
  BY <1>1, <1>2 DEF Init, PInv, Parsing, Following, Found, MemoryLasts, UsesOnlyHeld

\* For every set of paths and files: as long as no allocation fails, no error path of a
\* load frees what it does not hold, and an item at address 0 is read only for a path
\* that goes on behind a missing name other than its first.
THEOREM LoadsUseOnlyHeld ==
    ASSUME MAEROS_MAX_FILE_DESCRIPTORS > 1
    PROVE  Spec => []UsesOnlyHeld
<1>1. Init => PInv
  BY PInvInit
<1>2. PInv /\ [Next]_vars => PInv'
  BY PInvStep
<1>3. PInv => UsesOnlyHeld
  BY DEF PInv
<1> QED
  BY <1>1, <1>2, <1>3, PTL DEF Spec

\* For every set of paths and files and whatever allocations fail: a program that runs is
\* the file that its path names, unless an allocation failed and either the path leads
\* through that file or its entry could not be copied.
THEOREM LoadsRunNamedFile ==
    ASSUME MAEROS_MAX_FILE_DESCRIPTORS > 1
    PROVE  Spec => []RunsNamedFile
<1>1. Init => PInv
  BY PInvInit
<1>2. PInv /\ [Next]_vars => PInv'
  BY PInvStep
<1>3. PInv => RunsNamedFile
  <2> SUFFICES ASSUME PInv, pc = "running" PROVE RunsNamedFile
    BY DEF RunsNamedFile
  <2>1. /\ ParsedInv /\ FoundInv /\ Len(load.path) \in Nat /\ load.parts \in Nat
        /\ load.item \in Items /\ failures \in Nat
        /\ load.path \in Seq({"file", "dir", "none"})
    BY LoadTypes DEF PInv, Parsing, Found
  <2>2. /\ load.n = load.parts /\ load.parts \in 1 .. Len(load.path)
        /\ load.path[load.parts] = "file" /\ \A j \in 1 .. load.parts - 1 : load.path[j] = "dir"
    BY <2>1 DEF FoundInv, ParsedInv, DirsBefore
  <2>3. CASE load.parts < Len(load.path)
    <3>1. failures > 0 /\ FileInPath(load.parts)
      BY <2>1, <2>2, <2>3 DEF ParsedInv, FileInPath
    <3> QED
      BY <2>1, <2>2, <3>1 DEF RunsNamedFile
  <2>4. CASE ~(load.parts < Len(load.path))
    <3>1. load.parts = Len(load.path)
      BY <2>1, <2>2, <2>4
    <3>2. Leads
      BY <2>1, <2>2, <3>1 DEF Leads
    <3>3. load.item.data \in {"ok", "null"}
      BY <2>1 DEF FoundInv, Items
    <3>4. load.item.data = "null" => failures > 0
      BY <2>1 DEF ParsedInv
    <3> QED
      BY <3>2, <3>3, <3>4 DEF RunsNamedFile
  <2> QED
    BY <2>3, <2>4
<1> QED
  BY <1>1, <1>2, <1>3, PTL DEF Spec

-----------------------------------------------------------------------------
\* The mapping of a program: paging, the ELF loader and process_map_memory.
Entries == [frame : Addresses, writeable : BOOLEAN]
Directories == [Indexes -> [Indexes -> Entries]]
Pages == {a \in Addresses : paging_is_aligned(a)}

\* The sizes.
LEMMA Sizes ==
    /\ PageSize \in Nat \ {0} /\ EntriesPerTable \in Nat \ {0} /\ WordSize \in Nat \ {0}
    /\ EntriesPerTable * PageSize \in Nat \ {0}
    /\ WordSize = EntriesPerTable * (EntriesPerTable * PageSize)
    /\ WordSize = (EntriesPerTable * EntriesPerTable) * PageSize
    /\ EntriesPerTable * EntriesPerTable \in Nat \ {0}
<1>1. PageSize \in Nat \ {0} /\ EntriesPerTable \in Nat \ {0}
  BY PagingAssumption
<1>2. \A a, b \in Nat \ {0} : a * b \in Nat \ {0}
  OBVIOUS
<1>3. EntriesPerTable * PageSize \in Nat \ {0} /\ EntriesPerTable * EntriesPerTable \in Nat \ {0}
  BY <1>1, <1>2
<1>4. (EntriesPerTable * EntriesPerTable) * PageSize \in Nat \ {0}
  BY <1>1, <1>2, <1>3
<1>5. (EntriesPerTable * EntriesPerTable) * PageSize = EntriesPerTable * (EntriesPerTable * PageSize)
  BY <1>1
<1> QED
  BY <1>1, <1>3, <1>4, <1>5 DEF WordSize

\* Division with remainder.
LEMMA Divides ==
    ASSUME NEW a \in Nat, NEW d \in Nat \ {0}
    PROVE  /\ a \div d \in Nat /\ a % d \in 0 .. d - 1
           /\ a = d * (a \div d) + (a % d)
  OBVIOUS

\* A number below e times d has a quotient below e.
LEMMA QuotientBelow ==
    ASSUME NEW a \in Nat, NEW d \in Nat \ {0}, NEW e \in Nat \ {0}, a < e * d
    PROVE  a \div d < e
<1>1. a \div d \in Nat /\ a % d \in 0 .. d - 1 /\ a = d * (a \div d) + (a % d)
  BY Divides
<1>2. \A q \in Nat : q >= e => d * q >= e * d
  OBVIOUS
<1> QED
  BY <1>1, <1>2

\* Quotient and rest are the only ones.
LEMMA Unique ==
    ASSUME NEW d \in Nat \ {0}, NEW q \in Nat, NEW r \in 0 .. d - 1
    PROVE  (d * q + r) % d = r /\ (d * q + r) \div d = q
  OBVIOUS

\* The indexes of an address; those of a page give the page.
LEMMA PageIndexes ==
    ASSUME NEW v \in Addresses
    PROVE  /\ directory_index(v) \in Indexes /\ table_index(v) \in Indexes
           /\ paging_is_aligned(v) =>
                v = directory_index(v) * EntriesPerTable * PageSize + table_index(v) * PageSize
<1> DEFINE T == EntriesPerTable * PageSize
           d == v \div T
           r == v % T
           t == r \div PageSize
           s == r % PageSize
<1>0. /\ PageSize \in Nat \ {0} /\ EntriesPerTable \in Nat \ {0} /\ T \in Nat \ {0}
      /\ v \in Nat /\ v < EntriesPerTable * T
  BY Sizes DEF Addresses
<1>1. d \in Nat /\ r \in 0 .. T - 1 /\ v = T * d + r
  <2> HIDE DEF T
  <2> QED
    BY <1>0, Divides
<1>2. d < EntriesPerTable
  <2> HIDE DEF T
  <2> QED
    BY <1>0, QuotientBelow
<1> HIDE DEF d, r
<1>3. t \in Nat /\ s \in 0 .. PageSize - 1 /\ r = PageSize * t + s
  <2>1. r \in Nat
    BY <1>0, <1>1
  <2> QED
    BY <1>0, <2>1, Divides
<1>4. t < EntriesPerTable
  <2>1. r \in Nat /\ r < EntriesPerTable * PageSize
    BY <1>0, <1>1
  <2> QED
    BY <1>0, <2>1, QuotientBelow
<1> HIDE DEF t, s
<1>5. v = PageSize * (EntriesPerTable * d + t) + s
  BY <1>0, <1>1, <1>3
<1>6. v % PageSize = s
  <2>1. EntriesPerTable * d + t \in Nat
    BY <1>0, <1>1, <1>3
  <2> DEFINE q == EntriesPerTable * d + t
  <2> HIDE DEF q
  <2> QED
    BY <1>0, <1>3, <1>5, <2>1, Unique DEF q
<1>7. directory_index(v) = d /\ table_index(v) = t
  BY DEF directory_index, table_index, d, t, r
<1>8. s = 0 => v = d * EntriesPerTable * PageSize + t * PageSize
  BY <1>0, <1>1, <1>3
<1>9. d \in Indexes /\ t \in Indexes
  <2> HIDE DEF T
  <2> QED
    BY <1>0, <1>1, <1>2, <1>3, <1>4 DEF Indexes
<1> HIDE DEF T
<1> QED
  BY <1>6, <1>7, <1>8, <1>9, Zenon DEF paging_is_aligned

\* Pages with the same indexes are the same.
LEMMA SamePage ==
    ASSUME NEW v \in Pages, NEW w \in Pages,
           directory_index(v) = directory_index(w), table_index(v) = table_index(w)
    PROVE  v = w
  BY PageIndexes DEF Pages

\* Every page of a new directory maps to itself.
LEMMA NewDirectory ==
    /\ paging_new_4gb \in Directories
    /\ \A v \in Pages : paging_get(paging_new_4gb, v) = [frame |-> v, writeable |-> FALSE]
<1>1. ASSUME NEW d \in Indexes, NEW t \in Indexes
      PROVE  d * EntriesPerTable * PageSize + t * PageSize \in Addresses
  <2>0. /\ PageSize \in Nat \ {0} /\ EntriesPerTable \in Nat \ {0} /\ d \in Nat /\ t \in Nat
        /\ d <= EntriesPerTable - 1 /\ t <= EntriesPerTable - 1
    BY Sizes DEF Indexes
  <2> DEFINE q == d * EntriesPerTable + t
  <2>1. q \in Nat /\ q <= EntriesPerTable * EntriesPerTable - 1
    <3>1. d * EntriesPerTable <= (EntriesPerTable - 1) * EntriesPerTable
      BY <2>0
    <3>2. (EntriesPerTable - 1) * EntriesPerTable = EntriesPerTable * EntriesPerTable - EntriesPerTable
      BY <2>0
    <3>3. d * EntriesPerTable \in Nat /\ EntriesPerTable * EntriesPerTable \in Nat
      BY <2>0
    <3> QED
      BY <2>0, <3>1, <3>2, <3>3
  <2>2. d * EntriesPerTable * PageSize + t * PageSize = q * PageSize
    BY <2>0
  <2> HIDE DEF q
  <2>3. q * PageSize \in Nat /\ q * PageSize <= (EntriesPerTable * EntriesPerTable - 1) * PageSize
    BY <2>0, <2>1, Sizes
  <2>4. (EntriesPerTable * EntriesPerTable - 1) * PageSize = WordSize - PageSize
    BY <2>0, Sizes
  <2> QED
    BY <2>0, <2>2, <2>3, <2>4, Sizes DEF Addresses
<1>2. paging_new_4gb \in Directories
  BY <1>1 DEF paging_new_4gb, Directories, Entries
<1>3. ASSUME NEW v \in Pages PROVE paging_get(paging_new_4gb, v) = [frame |-> v, writeable |-> FALSE]
  <2>1. directory_index(v) \in Indexes /\ table_index(v) \in Indexes
        /\ v = directory_index(v) * EntriesPerTable * PageSize + table_index(v) * PageSize
    BY PageIndexes DEF Pages
  <2> QED
    BY <2>1 DEF paging_get, paging_new_4gb
<1> QED
  BY <1>2, <1>3

\* An entry that is set is there, and all others stay.
LEMMA SetEntry ==
    ASSUME NEW dir \in Directories, NEW v \in Pages, NEW e \in Entries
    PROVE  /\ paging_set(dir, v, e) \in Directories
           /\ \A p \in Pages :
                paging_get(paging_set(dir, v, e), p) = IF p = v THEN e ELSE paging_get(dir, p)
<1> DEFINE d == directory_index(v)
           t == table_index(v)
<1>1. d \in Indexes /\ t \in Indexes
  BY PageIndexes DEF Pages
<1>2. ASSUME NEW p \in Pages
      PROVE  directory_index(p) \in Indexes /\ table_index(p) \in Indexes
             /\ (directory_index(p) = d /\ table_index(p) = t => p = v)
  BY PageIndexes, SamePage DEF Pages
<1>3. paging_set(dir, v, e) = [dir EXCEPT ![d][t] = e]
  BY DEF paging_set
<1>4. paging_set(dir, v, e) = [dir EXCEPT ![d] = [dir[d] EXCEPT ![t] = e]]
  BY <1>3, Zenon
<1> HIDE DEF d, t
<1>5. [dir[d] EXCEPT ![t] = e] \in [Indexes -> Entries]
  BY <1>1 DEF Directories
<1>6. \A i, j \in Indexes : paging_set(dir, v, e)[i][j] = IF i = d /\ j = t THEN e ELSE dir[i][j]
  BY <1>1, <1>4 DEF Directories
<1>7. ASSUME NEW p \in Pages
      PROVE  paging_get(paging_set(dir, v, e), p) = IF p = v THEN e ELSE paging_get(dir, p)
  BY <1>2, <1>6 DEF paging_get, d, t
<1>8. paging_set(dir, v, e) \in Directories
  BY <1>1, <1>4, <1>5 DEF Directories
<1> QED
  BY <1>7, <1>8

-----------------------------------------------------------------------------
\* Whole pages are aligned; so are sums and words of what is aligned.
LEMMA WholePages ==
    ASSUME NEW k \in Nat
    PROVE  k * PageSize \in Nat /\ paging_is_aligned(k * PageSize)
<1>1. k * PageSize = PageSize * k + 0 /\ 0 \in 0 .. PageSize - 1 /\ k * PageSize \in Nat
  BY Sizes
<1>2. (PageSize * k + 0) % PageSize = 0
  BY <1>1, Sizes, Unique
<1> QED
  BY <1>1, <1>2, Zenon DEF paging_is_aligned

\* An aligned address is a whole number of pages.
LEMMA AlignedIsWhole ==
    ASSUME NEW a \in Nat, paging_is_aligned(a)
    PROVE  a \div PageSize \in Nat /\ a = (a \div PageSize) * PageSize
<1>1. a \div PageSize \in Nat /\ a = PageSize * (a \div PageSize) + (a % PageSize)
  BY Sizes, Divides
<1>2. a % PageSize = 0
  BY DEF paging_is_aligned
<1> QED
  BY <1>1, <1>2, Sizes

\* Sums and differences of aligned addresses are aligned.
LEMMA AlignedSum ==
    ASSUME NEW a \in Nat, NEW b \in Nat, paging_is_aligned(a), paging_is_aligned(b)
    PROVE  paging_is_aligned(a + b) /\ (b <= a => paging_is_aligned(a - b))
<1> DEFINE q == a \div PageSize
           r == b \div PageSize
<1>1. q \in Nat /\ r \in Nat /\ a = q * PageSize /\ b = r * PageSize
  BY AlignedIsWhole
<1> HIDE DEF q, r
<1>2. a + b = (q + r) * PageSize /\ q + r \in Nat
  BY <1>1, Sizes
<1>3. paging_is_aligned((q + r) * PageSize)
  BY <1>2, WholePages
<1>4. ASSUME b <= a PROVE paging_is_aligned(a - b)
  <2>1. a - b = (q - r) * PageSize
    BY <1>1, Sizes
  <2>2. q - r \in Nat
    BY <1>1, <1>4, Sizes
  <2> QED
    BY <2>1, <2>2, WholePages
<1> QED
  BY <1>2, <1>3, <1>4

\* Reduction to the word, of what exceeds it at most once.
LEMMA Words ==
    /\ \A a \in Addresses : a % WordSize = a
    /\ \A a \in Nat : a >= WordSize /\ a < WordSize + WordSize => a % WordSize = a - WordSize
    /\ \A a \in Nat : a % WordSize \in Addresses
<1> DEFINE w == WordSize
<1>1. w \in Nat \ {0}
  BY Sizes
<1> HIDE DEF w
<1>2. \A a \in 0 .. w - 1 : a % w = a
  BY <1>1
<1>3. ASSUME NEW a \in Nat, a >= w, a < w + w PROVE a % w = a - w
  <2>1. a - w \in 0 .. w - 1 /\ w * 1 + (a - w) = a
    BY <1>1, <1>3
  <2>2. (w * 1 + (a - w)) % w = a - w
    BY <1>1, <2>1, Unique
  <2> QED
    BY <2>1, <2>2
<1>4. \A a \in Nat : a % w \in 0 .. w - 1
  BY <1>1
<1> QED
  BY <1>2, <1>3, <1>4 DEF w, Addresses

\* Reduction to the word keeps pages pages.
LEMMA AlignedWord ==
    ASSUME NEW a \in Nat, paging_is_aligned(a), a < WordSize + WordSize
    PROVE  a % WordSize \in Pages
<1>1. CASE a < WordSize
  BY <1>1, Words, Sizes, SMTT(30) DEF Pages, Addresses
<1>2. CASE a >= WordSize
  <2>1. paging_is_aligned(WordSize)
    <3>1. EntriesPerTable * EntriesPerTable \in Nat
          /\ WordSize = (EntriesPerTable * EntriesPerTable) * PageSize
      BY Sizes
    <3>2. paging_is_aligned((EntriesPerTable * EntriesPerTable) * PageSize)
      BY <3>1, WholePages
    <3> QED
      BY <3>1, <3>2, Zenon
  <2>2. paging_is_aligned(a - WordSize)
    BY <1>2, <2>1, Sizes, AlignedSum
  <2> QED
    BY <1>2, <2>2, Words, Sizes DEF Pages
<1> QED
  BY <1>1, <1>2, Sizes

\* Different offsets from an address lead to different addresses.
LEMMA WrapsOnce ==
    ASSUME NEW v \in Addresses, NEW a \in Addresses, NEW b \in Addresses,
           (v + a) % WordSize = (v + b) % WordSize
    PROVE  a = b
<1>1. \A x \in Addresses : v + x \in Nat /\ v + x < WordSize + WordSize
  BY Sizes DEF Addresses
<1>2. \A x \in Addresses : (v + x) % WordSize = IF v + x < WordSize THEN v + x ELSE (v + x) - WordSize
  <2> SUFFICES ASSUME NEW x \in Addresses
               PROVE  (v + x) % WordSize = IF v + x < WordSize THEN v + x ELSE (v + x) - WordSize
    OBVIOUS
  <2> DEFINE y == v + x
  <2>1. y \in Nat /\ y < WordSize + WordSize
    BY <1>1
  <2> HIDE DEF y
  <2>0. WordSize \in Nat
    BY Sizes
  <2>2. CASE y < WordSize
    <3>1. y \in Addresses
      BY <2>0, <2>1, <2>2 DEF Addresses
    <3>2. y % WordSize = y
      BY <3>1, Words
    <3> QED
      BY <2>2, <3>2, Zenon DEF y
  <2>3. CASE y >= WordSize
    <3>1. y % WordSize = y - WordSize
      BY <2>1, <2>3, Words, Zenon
    <3>2. ~(y < WordSize)
      BY <2>0, <2>1, <2>3
    <3> QED
      BY <3>1, <3>2, Zenon DEF y
  <2> QED
    BY <2>0, <2>1, <2>2, <2>3
<1> QED
  BY <1>2, Sizes DEF Addresses

-----------------------------------------------------------------------------
\* Page k of a range, and the entry that it gets.
PageAt(virt, k) == (virt + k * PageSize) % WordSize
EntryAt(phys, k, writeable) == [frame |-> (phys + k * PageSize) % WordSize, writeable |-> writeable]

\* What a directory is after count pages of it were mapped.
Maps(dir, res, virt, phys, count, writeable) ==
    /\ res \in Directories
    /\ \A k \in 0 .. count - 1 : paging_get(res, PageAt(virt, k)) = EntryAt(phys, k, writeable)
    /\ \A p \in Pages : (\A k \in 0 .. count - 1 : p # PageAt(virt, k))
                           => paging_get(res, p) = paging_get(dir, p)

\* Pages of a range that is not longer than the address space.
LEMMA RangePages ==
    ASSUME NEW virt \in Pages, NEW count \in Nat, count * PageSize <= WordSize, NEW k \in 0 .. count - 1
    PROVE  /\ k * PageSize \in Addresses /\ PageAt(virt, k) \in Pages
           /\ \A j \in 0 .. count - 1 : PageAt(virt, j) = PageAt(virt, k) => j = k
<1>1. ASSUME NEW j \in 0 .. count - 1 PROVE j * PageSize \in Addresses
  <2>1. j * PageSize \in Nat /\ j * PageSize <= (count - 1) * PageSize
    BY Sizes
  <2>2. (count - 1) * PageSize = count * PageSize - PageSize
    BY Sizes
  <2>3. count * PageSize \in Nat
    BY Sizes
  <2> QED
    BY <2>1, <2>2, <2>3, Sizes DEF Addresses
<1>2. virt \in Addresses /\ paging_is_aligned(virt)
  BY DEF Pages
<1>3. PageAt(virt, k) \in Pages
  <2>1. paging_is_aligned(k * PageSize) /\ k * PageSize \in Nat
    BY WholePages
  <2> DEFINE o == k * PageSize
  <2>2. paging_is_aligned(virt + o) /\ virt + o \in Nat
    <3> HIDE DEF o
    <3>1. virt \in Nat
      BY <1>2, Sizes DEF Addresses
    <3> QED
      BY <1>2, <2>1, <3>1, AlignedSum DEF o
  <2>3. virt + k * PageSize < WordSize + WordSize
    BY <1>1, <1>2, Sizes DEF Addresses
  <2> QED
    BY <2>2, <2>3, AlignedWord DEF PageAt
<1>4. ASSUME NEW j \in 0 .. count - 1, PageAt(virt, j) = PageAt(virt, k) PROVE j = k
  <2>1. j * PageSize = k * PageSize
    BY <1>1, <1>2, <1>4, WrapsOnce DEF PageAt
  <2> QED
    BY <2>1, Sizes
<1> QED
  BY <1>1, <1>3, <1>4

\* paging_map_range maps page after page, each once.
LEMMA MapRange ==
    ASSUME NEW dir \in Directories, NEW virt \in Pages, NEW phys \in Pages, NEW count \in Nat,
           count * PageSize <= WordSize, NEW writeable \in BOOLEAN
    PROVE  Maps(dir, paging_map_range(dir, virt, phys, count, writeable), virt, phys, count, writeable)
<1> DEFINE G(i, x) == paging_set(x, PageAt(virt, i - 1), EntryAt(phys, i - 1, writeable))
           S == Directories
           F(f) == f = [i \in 0 .. count |-> IF i = 0 THEN dir ELSE G(i, f[i - 1])]
           g == [i \in 1 .. count |-> [x \in S |-> G(i, x)]]
           b == CHOOSE f : F(f)
<1>1. ASSUME NEW i \in 1 .. count
      PROVE  PageAt(virt, i - 1) \in Pages /\ EntryAt(phys, i - 1, writeable) \in Entries
  <2>1. i - 1 \in 0 .. count - 1
    OBVIOUS
  <2>2. PageAt(virt, i - 1) \in Pages /\ PageAt(phys, i - 1) \in Pages
    BY <2>1, RangePages
  <2> QED
    BY <2>2 DEF EntryAt, Entries, PageAt, Pages
<1>2. ASSUME NEW x \in S, NEW i \in 1 .. count
      PROVE  /\ G(i, x) \in S
             /\ \A p \in Pages : paging_get(G(i, x), p) =
                  IF p = PageAt(virt, i - 1) THEN EntryAt(phys, i - 1, writeable) ELSE paging_get(x, p)
  BY <1>1, SetEntry
<1>3. g \in [1 .. count -> [S -> S]]
  <2> HIDE DEF G, S
  <2> QED
    BY <1>2
<1>4. \A i \in 1 .. count, x \in S : g[i][x] = G(i, x)
  <2> HIDE DEF G, S
  <2> QED
    OBVIOUS
<1> HIDE DEF g, S, G
<1>0. dir \in S
  BY DEF S
<1>5. PICK f \in [0 .. count -> S] : f[0] = dir /\ \A i \in 1 .. count : f[i] = g[i][f[i - 1]]
  <2>1. Solvable(count, S, dir, g)
    BY <1>0, <1>3, Recursion
  <2> QED
    BY <2>1 DEF Solvable
<1>6. F(f)
  <2>1. ASSUME NEW i \in 1 .. count PROVE f[i] = G(i, f[i - 1])
    <3>1. f[i - 1] \in S
      OBVIOUS
    <3> QED
      BY <1>4, <1>5, <3>1
  <2>2. \A i \in 0 .. count : f[i] = IF i = 0 THEN dir ELSE G(i, f[i - 1])
    BY <1>5, <2>1
  <2> QED
    BY <2>2
<1>7. F(b)
  <2> HIDE DEF F
  <2> QED
    BY <1>6
<1>8. paging_map_range(dir, virt, phys, count, writeable) = b[count]
  BY Zenon DEF paging_map_range, PageAt, EntryAt, b, G
<1> HIDE DEF b
<1>9. b[0] = dir /\ \A i \in 1 .. count : b[i] = G(i, b[i - 1])
  BY <1>7
<1> DEFINE P == {i \in 0 .. count : Maps(dir, b[i], virt, phys, i, writeable)}
<1>10. 0 \in P
  BY <1>9 DEF Maps
<1>11. ASSUME NEW i \in 1 .. count, i - 1 \in P PROVE i \in P
  <2> DEFINE x == b[i - 1]
  <2>1. Maps(dir, x, virt, phys, i - 1, writeable)
    BY <1>11
  <2>2. x \in S
    BY <2>1 DEF Maps, S
  <2>3. b[i] = G(i, x)
    BY <1>9
  <2> HIDE DEF x, P
  <2>4. /\ b[i] \in Directories
        /\ \A p \in Pages : paging_get(b[i], p) =
             IF p = PageAt(virt, i - 1) THEN EntryAt(phys, i - 1, writeable) ELSE paging_get(x, p)
    BY <1>2, <2>2, <2>3 DEF S
  <2>5. ASSUME NEW k \in 0 .. i - 1
        PROVE  paging_get(b[i], PageAt(virt, k)) = EntryAt(phys, k, writeable)
    <3>1. k \in 0 .. count - 1 /\ i - 1 \in 0 .. count - 1
      OBVIOUS
    <3>2. PageAt(virt, k) \in Pages /\ (PageAt(virt, k) = PageAt(virt, i - 1) => k = i - 1)
      BY <3>1, RangePages
    <3>3. CASE k = i - 1
      BY <2>4, <3>2, <3>3
    <3>4. CASE k # i - 1
      <4>1. k \in 0 .. (i - 1) - 1
        BY <3>4
      <4>2. paging_get(x, PageAt(virt, k)) = EntryAt(phys, k, writeable)
        BY <2>1, <4>1 DEF Maps
      <4> QED
        BY <2>4, <3>2, <3>4, <4>2
    <3> QED
      BY <3>3, <3>4
  <2>6. ASSUME NEW p \in Pages, \A k \in 0 .. i - 1 : p # PageAt(virt, k)
        PROVE  paging_get(b[i], p) = paging_get(dir, p)
    <3>1. p # PageAt(virt, i - 1) /\ \A k \in 0 .. (i - 1) - 1 : p # PageAt(virt, k)
      BY <2>6
    <3>2. paging_get(x, p) = paging_get(dir, p)
      BY <2>1, <3>1 DEF Maps
    <3> QED
      BY <2>4, <3>1, <3>2
  <2>7. Maps(dir, b[i], virt, phys, i, writeable)
    BY <2>4, <2>5, <2>6 DEF Maps
  <2> QED
    BY <2>7 DEF P
<1> HIDE DEF P
<1>12. \A i \in 0 .. count : i \in P
  BY <1>10, <1>11, UpTo
<1>13. Maps(dir, b[count], virt, phys, count, writeable)
  BY <1>12 DEF P
<1> QED
  BY <1>8, <1>13

-----------------------------------------------------------------------------
\* Of two pages the lower ends where the higher begins, or before.
LEMMA PageGap ==
    ASSUME NEW a \in Nat, NEW b \in Nat, paging_is_aligned(a), paging_is_aligned(b), a < b
    PROVE  a + PageSize <= b
<1> DEFINE q == a \div PageSize
           r == b \div PageSize
<1>1. q \in Nat /\ r \in Nat /\ a = q * PageSize /\ b = r * PageSize
  BY AlignedIsWhole
<1> HIDE DEF q, r
<1>2. q < r
  BY <1>1, Sizes
<1>3. (q + 1) * PageSize <= r * PageSize
  BY <1>1, <1>2, Sizes
<1> QED
  BY <1>1, <1>3, Sizes

\* Rounding down leads to the page of the address.
LEMMA AlignDown ==
    ASSUME NEW a \in Nat
    PROVE  LET r == paging_align_to_lower_page(a)
           IN  r \in Nat /\ paging_is_aligned(r) /\ r <= a /\ a < r + PageSize /\ a - r = a % PageSize
<1> DEFINE q == a \div PageSize
           m == a % PageSize
<1>1. q \in Nat /\ m \in 0 .. PageSize - 1 /\ a = PageSize * q + m
  BY Sizes, Divides
<1>2. paging_align_to_lower_page(a) = a - m
  BY DEF paging_align_to_lower_page
<1> HIDE DEF q, m
<1>3. a - m = q * PageSize
  BY <1>1, Sizes
<1>4. paging_is_aligned(q * PageSize) /\ q * PageSize \in Nat
  BY <1>1, WholePages
<1>5. paging_is_aligned(a - m) /\ a - m \in Nat
  BY <1>3, <1>4
<1> QED
  BY <1>1, <1>2, <1>5, Sizes DEF m

\* And that is a page of the address space.
LEMMA AlignDownPage ==
    ASSUME NEW a \in Addresses
    PROVE  paging_align_to_lower_page(a) \in Pages
<1>1. a \in Nat /\ WordSize \in Nat
  BY Sizes DEF Addresses
<1> QED
  BY <1>1, AlignDown DEF Pages, Addresses

\* The end of an address space is aligned.
LEMMA WordAligned == paging_is_aligned(WordSize)
<1>1. EntriesPerTable * EntriesPerTable \in Nat
      /\ WordSize = (EntriesPerTable * EntriesPerTable) * PageSize
  BY Sizes
<1>2. paging_is_aligned((EntriesPerTable * EntriesPerTable) * PageSize)
  BY <1>1, WholePages
<1> QED
  BY <1>1, <1>2, Zenon

\* Rounding up leads to the next page, or, from the last page, to 0.
LEMMA AlignUp ==
    ASSUME NEW a \in Addresses
    PROVE  LET r == paging_align_address(a)
           IN  /\ r \in Pages
               /\ \/ a <= r /\ r < a + PageSize
                  \/ r = 0 /\ WordSize - PageSize < a
<1>0. a \in Nat /\ a < WordSize /\ WordSize \in Nat \ {0} /\ PageSize \in Nat \ {0}
  BY Sizes DEF Addresses
<1>1. CASE a % PageSize = 0
  <2>1. paging_align_address(a) = a
    BY <1>1 DEF paging_align_address
  <2> QED
    BY <1>0, <1>1, <2>1 DEF Pages, paging_is_aligned
<1>2. CASE a % PageSize # 0
  <2> DEFINE low == paging_align_to_lower_page(a)
             u == low + PageSize
  <2>1. low \in Nat /\ paging_is_aligned(low) /\ low <= a /\ a < low + PageSize /\ a - low = a % PageSize
    BY <1>0, AlignDown
  <2>2. low < a
    BY <1>0, <1>2, <2>1
  <2>3. paging_align_address(a) = (a + PageSize - (a % PageSize)) % WordSize
    BY <1>2 DEF paging_align_address
  <2>4. a + PageSize - (a % PageSize) = u
    <3> DEFINE m == a % PageSize
    <3>1. a - low = m /\ m \in Int
      BY <1>0, <2>1
    <3> HIDE DEF m, low
    <3>2. a + PageSize - m = low + PageSize
      BY <1>0, <2>1, <3>1
    <3> QED
      BY <3>2 DEF m
  <2>5. u \in Nat /\ paging_is_aligned(u)
    <3>1. paging_is_aligned(1 * PageSize) /\ 1 * PageSize = PageSize
      BY <1>0, WholePages
    <3> HIDE DEF low
    <3>2. paging_is_aligned(low + PageSize)
      BY <1>0, <2>1, <3>1, AlignedSum
    <3> QED
      BY <1>0, <2>1, <3>2
  <2>6. u <= WordSize
    BY <1>0, <2>1, <2>2, PageGap, WordAligned
  <2>7. paging_align_address(a) = u % WordSize
    BY <2>3, <2>4
  <2> HIDE DEF low
  <2>8. CASE u < WordSize
    <3>1. u \in Addresses
      BY <1>0, <2>5, <2>8 DEF Addresses
    <3>2. paging_align_address(a) = u
      BY <2>7, <3>1, Words
    <3> QED
      BY <1>0, <2>1, <2>2, <2>5, <3>1, <3>2 DEF Pages
  <2>9. CASE u = WordSize
    <3>1. u % WordSize = 0
      BY <1>0, <2>9
    <3>2. 0 \in Pages
      BY <1>0 DEF Pages, Addresses, paging_is_aligned
    <3>3. WordSize - PageSize < a
      BY <1>0, <2>1, <2>2, <2>9
    <3> QED
      BY <2>7, <3>1, <3>2, <3>3
  <2> QED
    BY <1>0, <2>5, <2>6, <2>8, <2>9
<1> QED
  BY <1>1, <1>2

-----------------------------------------------------------------------------
\* Where the pages of len bytes begin.
Offsets(len) == {o \in 0 .. len - 1 : paging_is_aligned(o)}

\* What a directory is after len bytes of it were mapped.
Covers(dir, res, virt, phys, len, writeable) ==
    /\ res \in Directories
    /\ \A o \in Offsets(len) :
         paging_get(res, (virt + o) % WordSize) = [frame |-> phys + o, writeable |-> writeable]
    /\ \A p \in Pages : (\A o \in Offsets(len) : p # (virt + o) % WordSize)
                           => paging_get(res, p) = paging_get(dir, p)

\* paging_map_to maps the pages between phys and phys_end.
LEMMA MapTo ==
    ASSUME NEW dir \in Directories, NEW virt \in Addresses, NEW phys \in Addresses,
           NEW phys_end \in Addresses, NEW writeable \in BOOLEAN, ~Refused(virt, phys, phys_end)
    PROVE  Covers(dir, paging_map_to(dir, virt, phys, phys_end, writeable),
                  virt, phys, phys_end - phys, writeable)
<1> DEFINE len == phys_end - phys
           count == len \div PageSize
           res == paging_map_to(dir, virt, phys, phys_end, writeable)
<1>0. /\ virt \in Pages /\ phys \in Pages /\ phys_end \in Pages /\ phys <= phys_end
      /\ phys \in Nat /\ phys_end \in Nat /\ WordSize \in Nat /\ phys_end < WordSize
      /\ paging_is_aligned(phys) /\ paging_is_aligned(phys_end)
  BY Sizes DEF Refused, Pages, Addresses
<1>1. len \in Nat /\ paging_is_aligned(len)
  BY <1>0, AlignedSum
<1>2. count \in Nat /\ len = count * PageSize
  <2> HIDE DEF len
  <2> QED
    BY <1>1, AlignedIsWhole
<1>3. res = paging_map_range(dir, virt, phys, count, writeable)
  BY DEF paging_map_to
<1>4. count * PageSize <= WordSize
  BY <1>0, <1>2
<1> HIDE DEF count, res
<1>5. Maps(dir, res, virt, phys, count, writeable)
  BY <1>0, <1>2, <1>3, <1>4, MapRange
<1>6. ASSUME NEW o \in Offsets(len)
      PROVE  \E k \in 0 .. count - 1 : o = k * PageSize
  <2>1. o \in Nat /\ o < len /\ paging_is_aligned(o)
    BY <1>1 DEF Offsets
  <2>2. o \div PageSize \in Nat /\ o = (o \div PageSize) * PageSize
    BY <2>1, AlignedIsWhole
  <2> DEFINE k == o \div PageSize
  <2> HIDE DEF k, len
  <2>3. k < count
    BY <1>2, <2>1, <2>2, Sizes DEF k
  <2> QED
    BY <1>2, <2>2, <2>3 DEF k
<1>7. ASSUME NEW k \in 0 .. count - 1
      PROVE  k * PageSize \in Offsets(len) /\ phys + k * PageSize \in Addresses
  <2>1. k * PageSize \in Nat /\ paging_is_aligned(k * PageSize)
    BY WholePages
  <2>2. k * PageSize < count * PageSize
    BY <1>2, Sizes
  <2>3. k * PageSize \in 0 .. len - 1
    <3> DEFINE o == k * PageSize
    <3> HIDE DEF o, len
    <3>1. o \in Nat /\ len \in Nat /\ o < len
      BY <1>1, <1>2, <2>1, <2>2, Zenon DEF o
    <3> QED
      BY <3>1 DEF o
  <2>4. phys + k * PageSize \in 0 .. WordSize - 1
    BY <1>0, <2>1, <2>3
  <2> QED
    BY <2>1, <2>3, <2>4 DEF Offsets, Addresses
<1>8. ASSUME NEW o \in Offsets(len)
      PROVE  paging_get(res, (virt + o) % WordSize) = [frame |-> phys + o, writeable |-> writeable]
  <2>1. PICK k \in 0 .. count - 1 : o = k * PageSize
    BY <1>6
  <2>2. paging_get(res, PageAt(virt, k)) = EntryAt(phys, k, writeable)
    BY <1>5 DEF Maps
  <2>3. (phys + k * PageSize) % WordSize = phys + k * PageSize
    BY <1>7, Words
  <2> QED
    BY <2>1, <2>2, <2>3, Zenon DEF PageAt, EntryAt
<1>9. ASSUME NEW p \in Pages, \A o \in Offsets(len) : p # (virt + o) % WordSize
      PROVE  paging_get(res, p) = paging_get(dir, p)
  <2>1. \A k \in 0 .. count - 1 : p # PageAt(virt, k)
    BY <1>7, <1>9 DEF PageAt
  <2> QED
    BY <1>5, <2>1 DEF Maps
<1>10. res \in Directories
  BY <1>5 DEF Maps
<1> HIDE DEF len
<1>11. Covers(dir, res, virt, phys, len, writeable)
  BY <1>8, <1>9, <1>10 DEF Covers
<1> QED
  BY <1>11 DEF len, res

-----------------------------------------------------------------------------
\* Sums of numbers.
LEMMA Sums ==
    ASSUME NEW a \in Nat, NEW b \in Nat
    PROVE  a + b \in Nat /\ (a # 0 => a > 0 /\ a + b > 0)
  OBVIOUS

\* The fields of a header are numbers.
LEMMA HeaderFields ==
    ASSUME NEW h \in elf32_phdr
    PROVE  /\ h.p_vaddr \in Nat /\ h.p_filesz \in Nat /\ h.p_offset \in Nat /\ h.p_memsz \in Nat
           /\ h.p_vaddr < WordSize /\ h.p_offset < WordSize /\ h.p_memsz < WordSize
<1>1. /\ h.p_vaddr \in Addresses /\ h.p_filesz \in Addresses /\ h.p_offset \in Addresses
      /\ h.p_memsz \in Addresses
  BY DEF elf32_phdr
<1>2. \A a \in Addresses : a \in Nat /\ a < WordSize
  BY Sizes DEF Addresses
<1> QED
  BY <1>1, <1>2

\* Words that a header gives.
LEMMA HeaderWords ==
    ASSUME NEW memory \in Pages, NEW h \in elf32_phdr
    PROVE  /\ memory \in Nat /\ h.p_offset \in Nat /\ h.p_memsz \in Nat /\ h.p_vaddr \in Addresses
           /\ h.p_memsz < WordSize
           /\ PhysOf(memory, h) \in Addresses /\ PhysOf(memory, h) + h.p_memsz \in Nat
           /\ (PhysOf(memory, h) + h.p_memsz) % WordSize \in Addresses
           /\ paging_align_to_lower_page(h.p_vaddr) \in Pages
           /\ paging_align_to_lower_page(PhysOf(memory, h)) \in Pages
           /\ EndOf(memory, h) \in Pages
<1>1. /\ memory \in Addresses /\ h.p_offset \in Addresses /\ h.p_memsz \in Addresses
      /\ h.p_vaddr \in Addresses
  BY DEF Pages, elf32_phdr
<1>2. \A a \in Addresses : a \in Nat /\ a < WordSize
  BY Sizes DEF Addresses
<1>3. memory + h.p_offset \in Nat
  BY <1>1, <1>2
<1>4. PhysOf(memory, h) \in Addresses
  BY <1>3, Words DEF PhysOf
<1>5. PhysOf(memory, h) + h.p_memsz \in Nat
  BY <1>1, <1>2, <1>4
<1>6. (PhysOf(memory, h) + h.p_memsz) % WordSize \in Addresses
  BY <1>5, Words
<1>7. EndOf(memory, h) \in Pages
  BY <1>6, AlignUp DEF EndOf
<1>8. paging_align_to_lower_page(h.p_vaddr) \in Pages
      /\ paging_align_to_lower_page(PhysOf(memory, h)) \in Pages
  BY <1>1, <1>4, AlignDownPage
<1> QED
  BY <1>1, <1>2, <1>4, <1>5, <1>6, <1>7, <1>8

\* How many bytes a header maps.
LengthOf(memory, h) == EndOf(memory, h) - paging_align_to_lower_page(PhysOf(memory, h))

\* A header that is not refused is mapped.
LEMMA HeaderMaps ==
    ASSUME NEW dir \in Directories, NEW memory \in Pages, NEW h \in elf32_phdr
    PROVE  /\ MapHeader(dir, memory, h) \in Directories
           /\ ~HeaderRefused(memory, h) =>
                Covers(dir, MapHeader(dir, memory, h), paging_align_to_lower_page(h.p_vaddr),
                       paging_align_to_lower_page(PhysOf(memory, h)), LengthOf(memory, h), h.PF_W)
<1> DEFINE virt == paging_align_to_lower_page(h.p_vaddr)
           phys == paging_align_to_lower_page(PhysOf(memory, h))
           end == EndOf(memory, h)
           res == paging_map_to(dir, virt, phys, end, h.PF_W)
<1>1. virt \in Addresses /\ phys \in Addresses /\ end \in Addresses /\ h.PF_W \in BOOLEAN
  BY HeaderWords DEF Pages, elf32_phdr
<1>2. /\ MapHeader(dir, memory, h) = res
      /\ HeaderRefused(memory, h) <=> Refused(virt, phys, end)
      /\ LengthOf(memory, h) = end - phys
  BY DEF MapHeader, HeaderRefused, LengthOf
<1>3. CASE Refused(virt, phys, end)
  <2>1. res = dir
    BY <1>3 DEF paging_map_to
  <2> HIDE DEF virt, phys, end
  <2> QED
    BY <1>2, <1>3, <2>1
<1>4. CASE ~Refused(virt, phys, end)
  <2> HIDE DEF virt, phys, end
  <2>1. Covers(dir, res, virt, phys, end - phys, h.PF_W)
    BY <1>1, <1>4, MapTo
  <2>2. res \in Directories
    BY <2>1 DEF Covers
  <2> HIDE DEF res
  <2>3. Covers(dir, MapHeader(dir, memory, h), virt, phys, LengthOf(memory, h), h.PF_W)
    BY <1>2, <2>1
  <2> QED
    BY <1>2, <2>2, <2>3 DEF virt, phys
<1> QED
  BY <1>3, <1>4

\* The directories that the headers lead through, one after the other.
Trace(f, dir, res, memory, phdrs) ==
    /\ f \in [0 .. Len(phdrs) -> Directories] /\ f[0] = dir /\ f[Len(phdrs)] = res
    /\ \A i \in 1 .. Len(phdrs) : f[i] = MapHeader(f[i - 1], memory, phdrs[i])

\* process_map_elf succeeds if no header is refused, and then maps them in turn.
LEMMA ElfTrace ==
    ASSUME NEW dir \in Directories, NEW memory \in Pages, NEW phdrs \in Seq(elf32_phdr)
    PROVE  LET r == process_map_elf(dir, memory, phdrs)
           IN  /\ r \in [ok : BOOLEAN, dir : Directories]
               /\ r.ok <=> \A i \in 1 .. Len(phdrs) : ~HeaderRefused(memory, phdrs[i])
               /\ r.ok => \E f : Trace(f, dir, r.dir, memory, phdrs)
<1> DEFINE n == Len(phdrs)
           m == [ok |-> TRUE, dir |-> dir]
           H(i, x) == [ok |-> ~HeaderRefused(memory, phdrs[i]), dir |-> MapHeader(x.dir, memory, phdrs[i])]
           G(i, x) == IF ~x.ok THEN x ELSE H(i, x)
           S == [ok : BOOLEAN, dir : Directories]
           F(f) == f = [i \in 0 .. n |-> IF i = 0 THEN m ELSE G(i, f[i - 1])]
           g == [i \in 1 .. n |-> [x \in S |-> G(i, x)]]
           b == CHOOSE f : F(f)
<1>1. n \in Nat /\ m \in S /\ \A i \in 1 .. n : phdrs[i] \in elf32_phdr
  OBVIOUS
<1>2. ASSUME NEW x \in S, NEW i \in 1 .. n PROVE G(i, x) \in S
  <2>1. x.dir \in Directories
    OBVIOUS
  <2>2. MapHeader(x.dir, memory, phdrs[i]) \in Directories
    BY <1>1, <2>1, HeaderMaps
  <2>3. H(i, x) \in S
    BY <2>2
  <2> HIDE DEF H
  <2> QED
    BY <2>3
<1>3. \A i \in 1 .. n, x \in S : /\ G(i, x).ok <=> x.ok /\ ~HeaderRefused(memory, phdrs[i])
                                 /\ x.ok => G(i, x).dir = MapHeader(x.dir, memory, phdrs[i])
  OBVIOUS
<1> HIDE DEF S, G, n, H
<1>4. g \in [1 .. n -> [S -> S]]
  BY <1>2
<1>5. \A i \in 1 .. n, x \in S : g[i][x] = G(i, x)
  OBVIOUS
<1> HIDE DEF g
<1>6. PICK f \in [0 .. n -> S] : f[0] = m /\ \A i \in 1 .. n : f[i] = g[i][f[i - 1]]
  <2> HIDE DEF m
  <2>1. Solvable(n, S, m, g)
    BY <1>1, <1>4, Recursion
  <2> QED
    BY <2>1 DEF Solvable
<1>7. F(f)
  <2> HIDE DEF m
  <2>1. ASSUME NEW i \in 1 .. n PROVE f[i] = G(i, f[i - 1])
    <3>1. f[i - 1] \in S
      BY <1>1
    <3> QED
      BY <1>5, <1>6, <3>1
  <2>2. \A i \in 0 .. n : f[i] = IF i = 0 THEN m ELSE G(i, f[i - 1])
    BY <1>1, <1>6, <2>1
  <2> QED
    BY <2>2
<1>8. F(b)
  <2> HIDE DEF F
  <2> QED
    BY <1>7
<1>9. process_map_elf(dir, memory, phdrs) = b[n]
  BY Zenon DEF process_map_elf, b, G, H, n, m
<1> HIDE DEF b
<1>10. b[0] = m /\ \A i \in 1 .. n : b[i] = G(i, b[i - 1])
  <2> HIDE DEF m
  <2> QED
    BY <1>1, <1>8
<1>11. \A i \in 0 .. n : b[i] \in S
  <2> HIDE DEF m
  <2>1. b[0] \in S /\ \A i \in 1 .. n : b[i - 1] \in S => b[i] \in S
    BY <1>1, <1>2, <1>10
  <2> QED
    BY <1>1, <2>1, StaysIn
<1>12. ASSUME NEW i \in 1 .. n
       PROVE  /\ b[i - 1] \in S
              /\ b[i].ok <=> b[i - 1].ok /\ ~HeaderRefused(memory, phdrs[i])
              /\ b[i - 1].ok => b[i].dir = MapHeader(b[i - 1].dir, memory, phdrs[i])
  <2>1. b[i - 1] \in S /\ b[i] = G(i, b[i - 1])
    BY <1>1, <1>10, <1>11
  <2> QED
    BY <1>3, <2>1
<1> DEFINE P == {i \in 0 .. n : b[i].ok <=> \A j \in 1 .. i : ~HeaderRefused(memory, phdrs[j])}
<1>13. \A i \in 0 .. n : i \in P
  <2>1. 0 \in P
    BY <1>1, <1>10
  <2>2. ASSUME NEW i \in 1 .. n, i - 1 \in P PROVE i \in P
    <3>1. b[i - 1].ok <=> \A j \in 1 .. i - 1 : ~HeaderRefused(memory, phdrs[j])
      BY <2>2
    <3>2. (\A j \in 1 .. i : ~HeaderRefused(memory, phdrs[j]))
            <=> (\A j \in 1 .. i - 1 : ~HeaderRefused(memory, phdrs[j])) /\ ~HeaderRefused(memory, phdrs[i])
      BY <1>1
    <3>3. b[i].ok <=> \A j \in 1 .. i : ~HeaderRefused(memory, phdrs[j])
      BY <1>12, <3>1, <3>2
    <3> QED
      BY <3>3
  <2> HIDE DEF P
  <2> QED
    BY <1>1, <2>1, <2>2, UpTo
<1>14. \A i \in 0 .. n : b[i].ok <=> \A j \in 1 .. i : ~HeaderRefused(memory, phdrs[j])
  BY <1>13
<1>15. ASSUME b[n].ok PROVE \E h : Trace(h, dir, b[n].dir, memory, phdrs)
  <2> DEFINE h == [i \in 0 .. n |-> b[i].dir]
  <2>1. \A i \in 0 .. n : b[i].ok /\ b[i].dir \in Directories
    BY <1>1, <1>11, <1>14, <1>15 DEF S
  <2>2. h \in [0 .. n -> Directories] /\ \A i \in 0 .. n : h[i] = b[i].dir
    BY <2>1
  <2> HIDE DEF h
  <2>3. \A i \in 1 .. n : h[i] = MapHeader(h[i - 1], memory, phdrs[i])
    <3> SUFFICES ASSUME NEW i \in 1 .. n PROVE h[i] = MapHeader(h[i - 1], memory, phdrs[i])
      OBVIOUS
    <3>1. i \in 0 .. n /\ i - 1 \in 0 .. n
      BY <1>1
    <3>2. b[i].dir = MapHeader(b[i - 1].dir, memory, phdrs[i])
      BY <1>12, <2>1, <3>1
    <3> QED
      BY <2>2, <3>1, <3>2
  <2>4. h[0] = dir
    BY <1>1, <1>10, <2>2
  <2>5. Trace(h, dir, b[n].dir, memory, phdrs)
    BY <1>1, <2>2, <2>3, <2>4 DEF Trace, n
  <2> QED
    BY <2>5
<1>16. b[n] \in [ok : BOOLEAN, dir : Directories]
  BY <1>1, <1>11 DEF S
<1>17. b[n].ok <=> \A i \in 1 .. n : ~HeaderRefused(memory, phdrs[i])
  BY <1>1, <1>14
<1> QED
  BY <1>9, <1>15, <1>16, <1>17, Zenon DEF n

-----------------------------------------------------------------------------
LoadsOf(phdrs, i) == {j \in 1 .. i : phdrs[j].p_type = "PT_LOAD"}
LastOf(h) == h.p_vaddr + h.p_filesz

\* The extent of the loadable segments among the first i headers.
ExtentOf(x, phdrs, i) ==
    IF LoadsOf(phdrs, i) = {} THEN x.base = 0 /\ x.end = 0
    ELSE /\ \E j \in LoadsOf(phdrs, i) : x.base = phdrs[j].p_vaddr
         /\ \E j \in LoadsOf(phdrs, i) : x.end = LastOf(phdrs[j])
         /\ \A j \in LoadsOf(phdrs, i) : x.base <= phdrs[j].p_vaddr /\ LastOf(phdrs[j]) <= x.end

\* One loadable segment widens the extent, as long as 0 stands for none.
LEMMA Widens ==
    ASSUME NEW x \in [base : Nat, end : Nat, physical_base : Nat, physical_end : Nat],
           NEW phdrs \in Seq(elf32_phdr), NEW i \in 1 .. Len(phdrs), NEW memory,
           phdrs[i].p_type = "PT_LOAD", ExtentOf(x, phdrs, i - 1),
           \A j \in LoadsOf(phdrs, i) : phdrs[j].p_vaddr # 0 /\ LastOf(phdrs[j]) < WordSize
    PROVE  ExtentOf(elf_process_phdr_pt_load(x, memory, phdrs[i]), phdrs, i)
<1> DEFINE h == phdrs[i]
           y == elf_process_phdr_pt_load(x, memory, h)
           A == LoadsOf(phdrs, i - 1)
           B == LoadsOf(phdrs, i)
<1>0. \A j \in 1 .. i : phdrs[j] \in elf32_phdr
  OBVIOUS
<1>1. B = A \cup {i} /\ i \in B
  BY DEF LoadsOf
<1>2. \A j \in B : phdrs[j].p_vaddr \in Nat /\ LastOf(phdrs[j]) \in Nat
                   /\ phdrs[j].p_vaddr > 0 /\ LastOf(phdrs[j]) > 0
  <2> SUFFICES ASSUME NEW j \in B
               PROVE  /\ phdrs[j].p_vaddr \in Nat /\ LastOf(phdrs[j]) \in Nat
                      /\ phdrs[j].p_vaddr > 0 /\ LastOf(phdrs[j]) > 0
    OBVIOUS
  <2>1. phdrs[j] \in elf32_phdr
    BY <1>0 DEF LoadsOf
  <2>2. phdrs[j].p_vaddr \in Nat /\ phdrs[j].p_filesz \in Nat
    BY <2>1, HeaderFields
  <2>3. phdrs[j].p_vaddr # 0
    OBVIOUS
  <2> QED
    BY <2>2, <2>3, Sums, Zenon DEF LastOf
<1>3. LastOf(h) % WordSize = LastOf(h)
  <2>1. LastOf(h) \in Addresses
    BY <1>1, <1>2, Sizes DEF Addresses
  <2> QED
    BY <2>1, Words
<1>4. /\ y.base = IF x.base >= h.p_vaddr \/ x.base = 0 THEN h.p_vaddr ELSE x.base
      /\ y.end = IF x.end <= LastOf(h) \/ x.end = 0 THEN LastOf(h) ELSE x.end
  BY <1>3 DEF elf_process_phdr_pt_load, LastOf
<1>5. x.base \in Nat /\ x.end \in Nat
  OBVIOUS
<1>6. IF A = {} THEN x.base = 0 /\ x.end = 0
      ELSE /\ \E j \in A : x.base = phdrs[j].p_vaddr
           /\ \E j \in A : x.end = LastOf(phdrs[j])
           /\ \A j \in A : x.base <= phdrs[j].p_vaddr /\ LastOf(phdrs[j]) <= x.end
  BY DEF ExtentOf
<1> HIDE DEF y, A, B
<1>7. /\ \E j \in B : y.base = phdrs[j].p_vaddr
      /\ \E j \in B : y.end = LastOf(phdrs[j])
  BY <1>1, <1>4, <1>6
<1>8. ASSUME NEW j \in B PROVE y.base <= phdrs[j].p_vaddr /\ LastOf(phdrs[j]) <= y.end
  <2> DEFINE v == phdrs[j].p_vaddr
             e == LastOf(phdrs[j])
             w == h.p_vaddr
             l == LastOf(h)
  <2>1. v \in Nat /\ e \in Nat /\ w \in Nat /\ l \in Nat
    BY <1>1, <1>2
  <2>2. (v = w /\ e = l) \/ (x.base <= v /\ e <= x.end /\ x.base # 0 /\ x.end # 0)
    <3>1. CASE j = i
      BY <3>1
    <3>2. CASE j # i
      <4>1. j \in A /\ A # {}
        BY <1>1, <3>2
      <4>2. x.base # 0 /\ x.end # 0
        BY <1>1, <1>2, <1>6, <4>1, SMTT(30)
      <4> QED
        BY <1>6, <4>1, <4>2
    <3> QED
      BY <3>1, <3>2
  <2> HIDE DEF v, e, w, l
  <2>3. /\ y.base = IF x.base >= w \/ x.base = 0 THEN w ELSE x.base
        /\ y.end = IF x.end <= l \/ x.end = 0 THEN l ELSE x.end
    BY <1>4 DEF w, l
  <2>4. y.base <= v /\ e <= y.end
    BY <1>5, <2>1, <2>2, <2>3
  <2> QED
    BY <2>4 DEF v, e
<1>9. ExtentOf(y, phdrs, i)
  BY <1>1, <1>7, <1>8 DEF ExtentOf, B
<1> QED
  BY <1>9 DEF y

\* elf_process_pheaders finds the extent.
LEMMA ElfExtent ==
    ASSUME NEW memory \in Nat, NEW phdrs \in Seq(elf32_phdr),
           \A j \in LoadsOf(phdrs, Len(phdrs)) : phdrs[j].p_vaddr # 0 /\ LastOf(phdrs[j]) < WordSize
    PROVE  ExtentOf(elf_process_pheaders(memory, phdrs), phdrs, Len(phdrs))
<1> DEFINE n == Len(phdrs)
           m == NoExtent
           G(i, x) == IF phdrs[i].p_type = "PT_LOAD" THEN elf_process_phdr_pt_load(x, memory, phdrs[i]) ELSE x
           S == [base : Nat, end : Nat, physical_base : Nat, physical_end : Nat]
           F(f) == f = [i \in 0 .. n |-> IF i = 0 THEN m ELSE G(i, f[i - 1])]
           g == [i \in 1 .. n |-> [x \in S |-> G(i, x)]]
           b == CHOOSE f : F(f)
<1>1. n \in Nat /\ m \in S /\ \A i \in 1 .. n : phdrs[i] \in elf32_phdr
  BY DEF NoExtent
<1>2. ASSUME NEW x \in S, NEW i \in 1 .. n PROVE G(i, x) \in S
  <2>1. phdrs[i].p_vaddr \in Nat /\ phdrs[i].p_filesz \in Nat /\ phdrs[i].p_offset \in Nat
    BY <1>1, HeaderFields
  <2>2. (phdrs[i].p_vaddr + phdrs[i].p_filesz) % WordSize \in Nat
    BY <2>1, Sizes, SMTT(30)
  <2> DEFINE last == (phdrs[i].p_vaddr + phdrs[i].p_filesz) % WordSize
             from == memory + phdrs[i].p_offset
             to == memory + phdrs[i].p_offset + phdrs[i].p_filesz
             low == x.base >= phdrs[i].p_vaddr \/ x.base = 0
             high == x.end <= last \/ x.end = 0
  <2>3. last \in Nat /\ from \in Nat /\ to \in Nat
    <3>1. from \in Nat
      BY <2>1, Sums, Zenon
    <3>2. (memory + phdrs[i].p_offset) + phdrs[i].p_filesz \in Nat
      BY <2>1, <3>1, Sums, Zenon
    <3> QED
      BY <2>2, <3>1, <3>2, Zenon
  <2>4. elf_process_phdr_pt_load(x, memory, phdrs[i]) =
          [base |-> IF low THEN phdrs[i].p_vaddr ELSE x.base, end |-> IF high THEN last ELSE x.end,
           physical_base |-> IF low THEN from ELSE x.physical_base,
           physical_end |-> IF high THEN to ELSE x.physical_end]
    BY DEF elf_process_phdr_pt_load
  <2> HIDE DEF last, from, to, low, high
  <2>5. elf_process_phdr_pt_load(x, memory, phdrs[i]) \in S
    BY <2>1, <2>3, <2>4
  <2> QED
    BY <2>5
<1> HIDE DEF S, G, n
<1>3. g \in [1 .. n -> [S -> S]]
  BY <1>2
<1>4. \A i \in 1 .. n, x \in S : g[i][x] = G(i, x)
  OBVIOUS
<1> HIDE DEF g
<1> HIDE DEF m
<1>5. PICK f \in [0 .. n -> S] : f[0] = m /\ \A i \in 1 .. n : f[i] = g[i][f[i - 1]]
  <2>1. Solvable(n, S, m, g)
    BY <1>1, <1>3, Recursion
  <2> QED
    BY <2>1 DEF Solvable
<1>6. F(f)
  <2>1. ASSUME NEW i \in 1 .. n PROVE f[i] = G(i, f[i - 1])
    <3>1. f[i - 1] \in S
      BY <1>1
    <3> QED
      BY <1>4, <1>5, <3>1
  <2>2. \A i \in 0 .. n : f[i] = IF i = 0 THEN m ELSE G(i, f[i - 1])
    BY <1>1, <1>5, <2>1
  <2> QED
    BY <2>2
<1>7. F(b)
  <2> HIDE DEF F
  <2> QED
    BY <1>6
<1>8. elf_process_pheaders(memory, phdrs) = b[n]
  BY Zenon DEF elf_process_pheaders, b, G, n, m
<1> HIDE DEF b
<1>9. b[0] = m /\ \A i \in 1 .. n : b[i] = G(i, b[i - 1])
  BY <1>1, <1>7
<1>10. \A i \in 0 .. n : b[i] \in S
  <2>1. b[0] \in S /\ \A i \in 1 .. n : b[i - 1] \in S => b[i] \in S
    BY <1>1, <1>2, <1>9
  <2> QED
    BY <1>1, <2>1, StaysIn
<1> DEFINE P == {i \in 0 .. n : ExtentOf(b[i], phdrs, i)}
<1>11. 0 \in P
  <2>1. LoadsOf(phdrs, 0) = {}
    BY DEF LoadsOf
  <2> QED
    BY <1>1, <1>9, <2>1 DEF ExtentOf, m, NoExtent
<1>12. ASSUME NEW i \in 1 .. n, i - 1 \in P PROVE i \in P
  <2>1. ExtentOf(b[i - 1], phdrs, i - 1) /\ b[i - 1] \in S /\ b[i] = G(i, b[i - 1])
    BY <1>1, <1>9, <1>10, <1>12
  <2>2. CASE phdrs[i].p_type = "PT_LOAD"
    <3>1. \A j \in LoadsOf(phdrs, i) : j \in LoadsOf(phdrs, Len(phdrs))
      BY <1>1 DEF LoadsOf, n
    <3>2. b[i] = elf_process_phdr_pt_load(b[i - 1], memory, phdrs[i])
      BY <2>1, <2>2 DEF G
    <3>3. ExtentOf(b[i], phdrs, i)
      BY <2>1, <2>2, <3>1, <3>2, Widens DEF S, n
    <3> QED
      BY <3>3
  <2>3. CASE phdrs[i].p_type # "PT_LOAD"
    <3>1. LoadsOf(phdrs, i) = LoadsOf(phdrs, i - 1)
      BY <1>1, <2>3 DEF LoadsOf
    <3>2. b[i] = b[i - 1]
      BY <2>1, <2>3 DEF G
    <3>3. ExtentOf(b[i], phdrs, i)
      BY <2>1, <3>1, <3>2 DEF ExtentOf
    <3> QED
      BY <3>3
  <2> QED
    BY <2>2, <2>3
<1> HIDE DEF P
<1>13. \A i \in 0 .. n : i \in P
  BY <1>1, <1>11, <1>12, UpTo
<1>14. ExtentOf(b[n], phdrs, n)
  BY <1>1, <1>13 DEF P
<1> QED
  BY <1>8, <1>14 DEF n

-----------------------------------------------------------------------------
\* Every page is one of those that were mapped, or as it was.
LEMMA CoversSplit ==
    ASSUME NEW dir, NEW res, NEW virt, NEW phys, NEW len, NEW w,
           Covers(dir, res, virt, phys, len, w), NEW p \in Pages
    PROVE  \/ \E o \in Offsets(len) : p = (virt + o) % WordSize
                                      /\ paging_get(res, p) = [frame |-> phys + o, writeable |-> w]
           \/ paging_get(res, p) = paging_get(dir, p)
  BY DEF Covers

\* What is mapped is the page itself, read-only, or lies in one of two places.
Owned(dir, memory, size, stack) ==
    \A p \in Pages :
        LET e == paging_get(dir, p)
        IN  \/ e = [frame |-> p, writeable |-> FALSE]
            \/ memory <= e.frame /\ e.frame < memory + size
            \/ stack <= e.frame /\ e.frame < stack + StackSize

\* Mapping pages to frames of the program keeps every frame its own or the identity.
LEMMA CoversOwned ==
    ASSUME NEW dir, NEW res, NEW virt, NEW phys, NEW len, NEW w, NEW memory, NEW size, NEW stack,
           Covers(dir, res, virt, phys, len, w), Owned(dir, memory, size, stack),
           \A o \in Offsets(len) : \/ memory <= phys + o /\ phys + o < memory + size
                                   \/ stack <= phys + o /\ phys + o < stack + StackSize
    PROVE  Owned(res, memory, size, stack)
<1> SUFFICES ASSUME NEW p \in Pages
             PROVE  LET e == paging_get(res, p)
                    IN  \/ e = [frame |-> p, writeable |-> FALSE]
                        \/ memory <= e.frame /\ e.frame < memory + size
                        \/ stack <= e.frame /\ e.frame < stack + StackSize
  BY DEF Owned
<1>1. CASE paging_get(res, p) = paging_get(dir, p)
  BY <1>1 DEF Owned
<1>2. CASE \E o \in Offsets(len) : paging_get(res, p) = [frame |-> phys + o, writeable |-> w]
  <2>1. PICK o \in Offsets(len) : paging_get(res, p) = [frame |-> phys + o, writeable |-> w]
    BY <1>2
  <2>2. [frame |-> phys + o, writeable |-> w].frame = phys + o
    OBVIOUS
  <2>3. paging_get(res, p).frame = phys + o
    BY <2>1, <2>2
  <2> QED
    BY <2>3, Zenon
<1>3. \/ \E o \in Offsets(len) : paging_get(res, p) = [frame |-> phys + o, writeable |-> w]
      \/ paging_get(res, p) = paging_get(dir, p)
  BY CoversSplit
<1> QED
  BY <1>1, <1>2, <1>3

\* A new directory is owned.
LEMMA NewOwned ==
    ASSUME NEW dir, NEW memory, NEW size, NEW stack,
           \A p \in Pages : paging_get(dir, p) = paging_get(paging_new_4gb, p)
    PROVE  Owned(dir, memory, size, stack)
  BY NewDirectory, Zenon DEF Owned

\* The frames of a range of len bytes from phys on, whose last page begins before x.
LEMMA FramesBelow ==
    ASSUME NEW phys \in Nat, NEW end \in Nat, NEW x \in Nat, paging_is_aligned(phys),
           paging_is_aligned(end), end < x + PageSize, NEW o \in Offsets(end - phys)
    PROVE  o \in Nat /\ phys <= phys + o /\ phys + o < x /\ paging_is_aligned(phys + o)
<1>1. o \in Nat /\ o < end - phys /\ paging_is_aligned(o)
  BY DEF Offsets
<1>2. paging_is_aligned(phys + o) /\ phys + o \in Nat /\ phys + o < end
  BY <1>1, AlignedSum
<1>3. (phys + o) + PageSize <= end
  BY <1>2, PageGap
<1> QED
  BY <1>1, <1>2, <1>3, Sizes

\* The frames of a header that lies in the file lie in the image.
LEMMA HeaderInside ==
    ASSUME NEW memory \in Pages, NEW h \in elf32_phdr, NEW size \in Nat, memory + size < WordSize,
           h.p_offset + h.p_memsz <= size, NEW o \in Offsets(LengthOf(memory, h))
    PROVE  LET frame == paging_align_to_lower_page(PhysOf(memory, h)) + o
           IN  memory <= frame /\ frame < memory + size
<1> DEFINE off == h.p_offset
           sz == h.p_memsz
           phys == PhysOf(memory, h)
           low == paging_align_to_lower_page(phys)
           end == EndOf(memory, h)
           x == phys + sz
<1>0. /\ memory \in Nat /\ off \in Nat /\ sz \in Nat /\ low \in Pages /\ end \in Pages
      /\ WordSize \in Nat /\ PageSize \in Nat \ {0} /\ paging_is_aligned(memory)
  BY HeaderWords, Sizes DEF Pages
<1>1. \A a \in Pages : a \in Nat /\ paging_is_aligned(a)
  BY Sizes DEF Pages, Addresses
<1>2. memory + off \in Addresses
  <2> HIDE DEF off, sz
  <2>1. off + sz <= size
    BY DEF off, sz
  <2> QED
    BY <1>0, <2>1 DEF Addresses
<1>3. phys = memory + off
  BY <1>2, Words DEF PhysOf
<1> HIDE DEF off, sz
<1>4. off + sz <= size
  BY DEF off, sz
<1>5. x \in Addresses /\ x <= memory + size /\ x \in Nat /\ phys \in Nat
  BY <1>0, <1>3, <1>4 DEF Addresses
<1>6. end = paging_align_address(x)
  <2>1. x % WordSize = x
    BY <1>5, Words
  <2>2. end = paging_align_address(x % WordSize)
    BY DEF EndOf, sz
  <2> QED
    BY <2>1, <2>2
<1> HIDE DEF phys
<1>7. low <= phys /\ phys < low + PageSize /\ low \in Nat /\ paging_is_aligned(low)
  BY <1>5, AlignDown
<1>8. memory <= low
  <2> HIDE DEF low
  <2>1. low < memory => low + PageSize <= memory
    BY <1>0, <1>7, PageGap
  <2> QED
    BY <1>0, <1>3, <1>7, <2>1
<1>9. o \in 0 .. (end - low) - 1
  BY DEF Offsets, LengthOf, phys
<1>10. end < x + PageSize
  <2>1. CASE end = 0
    BY <1>0, <1>5, <2>1
  <2>2. CASE end # 0
    BY <1>5, <1>6, <2>2, AlignUp
  <2> QED
    BY <2>1, <2>2
<1>11. o \in Offsets(end - low)
  BY DEF LengthOf, phys
<1> HIDE DEF end, low, x
<1>12. o \in Nat /\ low <= low + o /\ low + o < x
  BY <1>0, <1>1, <1>5, <1>7, <1>10, <1>11, FramesBelow
<1>13. memory <= low + o /\ low + o < memory + size
  BY <1>0, <1>5, <1>7, <1>8, <1>12
<1> QED
  BY <1>13 DEF low, phys

\* The headers of a file that asks for nothing outside it own what they map.
LEMMA TraceOwned ==
    ASSUME NEW f, NEW dir, NEW res, NEW memory \in Pages, NEW phdrs \in Seq(elf32_phdr),
           NEW size \in Nat, NEW stack, memory + size < WordSize,
           Trace(f, dir, res, memory, phdrs), Owned(dir, memory, size, stack),
           \A i \in 1 .. Len(phdrs) : ~HeaderRefused(memory, phdrs[i])
                                      /\ phdrs[i].p_offset + phdrs[i].p_memsz <= size
    PROVE  Owned(res, memory, size, stack)
<1> DEFINE n == Len(phdrs)
           P == {i \in 0 .. n : Owned(f[i], memory, size, stack)}
<1>0. n \in Nat /\ f[0] = dir /\ f[n] = res
  BY DEF Trace
<1>1. 0 \in P
  BY <1>0
<1>2. ASSUME NEW i \in 1 .. n, i - 1 \in P PROVE i \in P
  <2> DEFINE h == phdrs[i]
             virt == paging_align_to_lower_page(h.p_vaddr)
             phys == paging_align_to_lower_page(PhysOf(memory, h))
             len == LengthOf(memory, h)
  <2>1. /\ h \in elf32_phdr /\ f[i - 1] \in Directories /\ f[i] = MapHeader(f[i - 1], memory, h)
        /\ ~HeaderRefused(memory, h) /\ h.p_offset + h.p_memsz <= size
    BY <1>0 DEF Trace
  <2>2. Covers(f[i - 1], f[i], virt, phys, len, h.PF_W)
    BY <2>1, HeaderMaps
  <2>3. \A o \in Offsets(len) : memory <= phys + o /\ phys + o < memory + size
    BY <2>1, HeaderInside
  <2>4. Owned(f[i - 1], memory, size, stack)
    BY <1>2
  <2> HIDE DEF h, virt, phys, len, P
  <2>5. Owned(f[i], memory, size, stack)
    BY <2>2, <2>3, <2>4, CoversOwned
  <2> QED
    BY <2>5 DEF P
<1> HIDE DEF P
<1>3. \A i \in 0 .. n : i \in P
  BY <1>0, <1>1, <1>2, UpTo
<1> QED
  BY <1>0, <1>3 DEF P

-----------------------------------------------------------------------------
\* The page of an address that lies s bytes into page q.
LEMMA DownUnique ==
    ASSUME NEW q \in Nat, NEW s \in 0 .. PageSize - 1, paging_is_aligned(q)
    PROVE  paging_align_to_lower_page(q + s) = q
<1> DEFINE k == q \div PageSize
<1>1. k \in Nat /\ q = k * PageSize
  BY AlignedIsWhole
<1> HIDE DEF k
<1>2. q + s = PageSize * k + s
  BY <1>1, Sizes
<1>3. (PageSize * k + s) % PageSize = s
  BY <1>1, Sizes, Unique
<1>4. (q + s) % PageSize = s
  BY <1>2, <1>3, Zenon
<1>5. paging_align_to_lower_page(q + s) = (q + s) - s
  BY <1>4, Zenon DEF paging_align_to_lower_page
<1> QED
  BY <1>5, Sizes

\* Byte k of a range from virt onto phys lies in the page at offset o, where it lies in the
\* frame at that offset.
ByteAt(virt, phys, k, o) ==
    LET v == (virt + k) % WordSize
        page == paging_align_to_lower_page(v)
    IN  /\ page \in Pages
        /\ page = (paging_align_to_lower_page(virt) + o) % WordSize
        /\ (paging_align_to_lower_page(phys) + o) + (v - page) = phys + k

\* A byte of a range that was mapped page by page, whose ends agree within the page: its
\* page is one of those mapped, and it lies in the page where it lies in the frame.
LEMMA ByteOfRange ==
    ASSUME NEW virt \in Addresses, NEW phys \in Addresses, virt % PageSize = phys % PageSize,
           NEW end \in Addresses, paging_is_aligned(end), NEW k \in Nat, phys + k < end
    PROVE  \E o \in Offsets(end - paging_align_to_lower_page(phys)) : ByteAt(virt, phys, k, o)
<1> DEFINE low == paging_align_to_lower_page(phys)
           base == paging_align_to_lower_page(virt)
           a == phys + k
           la == paging_align_to_lower_page(a)
           s == a - la
           o == la - low
           r == phys - low
           y == base + o
           q == y % WordSize
<1>0. virt \in Nat /\ phys \in Nat /\ end \in Nat /\ end < WordSize /\ WordSize \in Nat
      /\ PageSize \in Nat \ {0} /\ virt < WordSize
  BY Sizes DEF Addresses
<1>1. low \in Nat /\ paging_is_aligned(low) /\ low <= phys /\ phys - low = phys % PageSize
  BY <1>0, AlignDown
<1>2. base \in Nat /\ paging_is_aligned(base) /\ base <= virt /\ virt - base = virt % PageSize
  BY <1>0, AlignDown
<1>3. a \in Nat /\ la \in Nat /\ paging_is_aligned(la) /\ la <= a /\ a < la + PageSize
  <2>1. a \in Nat
    BY <1>0
  <2> HIDE DEF a
  <2> QED
    BY <2>1, AlignDown
<1>4. virt - base = phys - low
  BY <1>1, <1>2
<1> HIDE DEF low, base, la
<1>5. low <= la
  <2>1. la < low => la + PageSize <= low
    BY <1>1, <1>3, PageGap
  <2> QED
    BY <1>0, <1>1, <1>3, <2>1
<1>6. o \in Nat /\ paging_is_aligned(o) /\ o \in 0 .. (end - low) - 1
  BY <1>0, <1>1, <1>3, <1>5, AlignedSum
<1>7. s \in 0 .. PageSize - 1
  BY <1>0, <1>3
<1>8. virt + k = y + s
  BY <1>0, <1>1, <1>2, <1>3, <1>4
<1>9. y \in Nat /\ paging_is_aligned(y) /\ y < WordSize + WordSize
  <2> HIDE DEF o
  <2>1. o \in Nat /\ o < WordSize
    BY <1>0, <1>1, <1>6
  <2>2. paging_is_aligned(base + o)
    BY <1>2, <1>6, <2>1, AlignedSum
  <2> QED
    BY <1>0, <1>2, <2>1, <2>2
<1>10. q \in Pages
  <2> HIDE DEF y
  <2> QED
    BY <1>9, AlignedWord
<1>11. q \in Nat /\ paging_is_aligned(q) /\ q + PageSize <= WordSize
  BY <1>0, <1>10, PageGap, WordAligned DEF Pages, Addresses
<1>12. (y + s) % WordSize = q + s
  <2> HIDE DEF y, s
  <2>1. CASE y < WordSize
    <3>1. q = y
      BY <1>0, <1>9, <2>1, Words DEF Addresses
    <3>2. y + s \in Addresses
      BY <1>0, <1>7, <1>11, <3>1 DEF Addresses
    <3>3. (y + s) % WordSize = y + s
      BY <3>2, Words
    <3> QED
      BY <3>1, <3>3
  <2>2. CASE y >= WordSize
    <3>1. q = y - WordSize
      BY <1>9, <2>2, Words, Zenon
    <3> DEFINE z == y + s
    <3>2. z \in Nat /\ z >= WordSize /\ z < WordSize + WordSize /\ z - WordSize = q + s
      <4> HIDE DEF q
      <4> QED
        BY <1>0, <1>7, <1>9, <1>11, <2>2, <3>1
    <3> HIDE DEF z
    <3>3. z % WordSize = z - WordSize
      BY <3>2, Words, Zenon
    <3> QED
      BY <3>2, <3>3 DEF z
  <2> QED
    BY <1>0, <1>9, <2>1, <2>2
<1>13. (virt + k) % WordSize = q + s
  BY <1>8, <1>12
<1>14. paging_align_to_lower_page(q + s) = q
  <2> HIDE DEF q, s
  <2> QED
    BY <1>7, <1>11, DownUnique
<1>15. (low + o) + ((q + s) - q) = phys + k
  <2> HIDE DEF q
  <2> QED
    BY <1>0, <1>1, <1>3, <1>11
<1>16. o \in Offsets(end - low)
  BY <1>6 DEF Offsets
<1> HIDE DEF q, s, o, y
<1>17. LET v == (virt + k) % WordSize
           page == paging_align_to_lower_page(v)
       IN  page \in Pages /\ page = (base + o) % WordSize /\ (low + o) + (v - page) = phys + k
  BY <1>10, <1>13, <1>14, <1>15, Zenon DEF q, y
<1> QED
  BY <1>16, <1>17, Zenon DEF base, low, ByteAt

\* The pages that a header takes.
HeaderPages(memory, h) ==
    {(paging_align_to_lower_page(h.p_vaddr) + o) % WordSize : o \in Offsets(LengthOf(memory, h))}

\* The page at an offset of a header, and its entry.
HeaderPage(h, o) == (paging_align_to_lower_page(h.p_vaddr) + o) % WordSize
HeaderEntry(memory, h, o) ==
    [frame |-> paging_align_to_lower_page(PhysOf(memory, h)) + o, writeable |-> h.PF_W]

\* No header is refused; no header after i takes the page.
NoneRefused(memory, phdrs) == \A j \in 1 .. Len(phdrs) : ~HeaderRefused(memory, phdrs[j])
LaterSpare(memory, phdrs, i, page) ==
    \A j \in 1 .. Len(phdrs) : j > i => page \notin HeaderPages(memory, phdrs[j])

\* The headers have been mapped from dir to res, and the page is one that header i took
\* and no later one.
TakenLast(f, dir, res, memory, phdrs, i, o, page) ==
    /\ memory \in Pages /\ phdrs \in Seq(elf32_phdr)
    /\ Trace(f, dir, res, memory, phdrs) /\ NoneRefused(memory, phdrs)
    /\ i \in 1 .. Len(phdrs) /\ o \in Offsets(LengthOf(memory, phdrs[i]))
    /\ page \in Pages /\ page = HeaderPage(phdrs[i], o) /\ LaterSpare(memory, phdrs, i, page)

\* What a header has mapped stays, unless a later one takes the page.
LEMMA TraceKeeps ==
    ASSUME NEW f, NEW dir, NEW res, NEW memory, NEW phdrs, NEW i, NEW o, NEW page,
           TakenLast(f, dir, res, memory, phdrs, i, o, page)
    PROVE  paging_get(res, page) = HeaderEntry(memory, phdrs[i], o)
<1> USE DEF TakenLast
<1> DEFINE n == Len(phdrs)
           e == HeaderEntry(memory, phdrs[i], o)
           P == {m \in 0 .. n : m >= i => paging_get(f[m], page) = e}
<1>0. n \in Nat /\ f[n] = res /\ i \in 1 .. n
  BY DEF Trace
<1>1. ASSUME NEW j \in 1 .. n
      PROVE  Covers(f[j - 1], f[j], paging_align_to_lower_page(phdrs[j].p_vaddr),
                    paging_align_to_lower_page(PhysOf(memory, phdrs[j])),
                    LengthOf(memory, phdrs[j]), phdrs[j].PF_W)
  <2>1. /\ phdrs[j] \in elf32_phdr /\ f[j - 1] \in Directories
        /\ f[j] = MapHeader(f[j - 1], memory, phdrs[j]) /\ ~HeaderRefused(memory, phdrs[j])
    <3>1. f \in [0 .. n -> Directories] /\ j - 1 \in 0 .. n
      BY <1>0 DEF Trace
    <3>2. f[j] = MapHeader(f[j - 1], memory, phdrs[j])
      BY DEF Trace
    <3> QED
      BY <3>1, <3>2 DEF NoneRefused
  <2> QED
    BY <2>1, HeaderMaps
<1>2. 0 \in P
  BY <1>0
<1>3. ASSUME NEW j \in 1 .. n, j - 1 \in P PROVE j \in P
  <2>1. CASE j < i
    BY <1>0, <2>1
  <2>2. CASE j = i
    <3>1. paging_get(f[j], page) = e
      BY <1>1, <2>2 DEF Covers, HeaderPage, HeaderEntry
    <3> QED
      BY <3>1
  <2>3. CASE j > i
    <3>1. paging_get(f[j - 1], page) = e
      BY <1>0, <1>3, <2>3
    <3>2. page \notin HeaderPages(memory, phdrs[j])
      BY <2>3 DEF LaterSpare
    <3>3. \A x \in Offsets(LengthOf(memory, phdrs[j])) :
             page # (paging_align_to_lower_page(phdrs[j].p_vaddr) + x) % WordSize
      BY <3>2 DEF HeaderPages
    <3>4. paging_get(f[j], page) = paging_get(f[j - 1], page)
      BY <1>1, <3>3 DEF Covers
    <3> QED
      BY <3>1, <3>4
  <2> QED
    BY <1>0, <2>1, <2>2, <2>3
<1> HIDE DEF P
<1>4. \A m \in 0 .. n : m \in P
  BY <1>0, <1>2, <1>3, UpTo
<1>5. n \in P
  BY <1>0, <1>4
<1>6. paging_get(f[n], page) = e
  BY <1>0, <1>5 DEF P
<1> QED
  BY <1>0, <1>6

-----------------------------------------------------------------------------
\* How far the pages of a raw binary reach.
BinaryEnd(addr, size) == paging_align_address((addr + size) % WordSize)

\* Of the layout.
LEMMA Layout ==
    /\ ProgramAddress \in Pages /\ StackEnd \in Pages /\ StackSize \in Pages
    /\ StackSize \in Nat /\ StackEnd \in Nat /\ ProgramAddress \in Nat
    /\ StackEnd + StackSize <= WordSize
<1>1. \A a \in Addresses : a \in Nat
  BY Sizes DEF Addresses
<1>2. \A a \in {ProgramAddress, StackEnd, StackSize} : a \in Addresses /\ paging_is_aligned(a)
  BY LayoutAssumption
<1> QED
  BY <1>1, <1>2, LayoutAssumption DEF Pages

\* process_map_binary for memory that does not reach into the last page.
LEMMA BinaryMaps ==
    ASSUME NEW dir \in Directories, NEW addr \in Pages, NEW size \in Nat, addr + size <= WordSize - PageSize
    PROVE  /\ BinaryEnd(addr, size) \in Pages
           /\ addr + size <= BinaryEnd(addr, size) /\ BinaryEnd(addr, size) < addr + size + PageSize
           /\ Covers(dir, process_map_binary(dir, addr, size), ProgramAddress, addr,
                     BinaryEnd(addr, size) - addr, TRUE)
<1> DEFINE x == addr + size
           end == BinaryEnd(addr, size)
<1>0. /\ addr \in Nat /\ addr \in Addresses /\ paging_is_aligned(addr) /\ WordSize \in Nat
      /\ PageSize \in Nat \ {0}
  BY Sizes DEF Pages, Addresses
<1>1. x \in Addresses /\ x \in Nat /\ x <= WordSize - PageSize
  BY <1>0 DEF Addresses
<1>2. end = paging_align_address(x)
  BY <1>1, Words DEF BinaryEnd
<1> HIDE DEF x
<1>3. end \in Pages /\ x <= end /\ end < x + PageSize
  BY <1>0, <1>1, <1>2, AlignUp
<1>4. addr <= x
  BY <1>0 DEF x
<1> HIDE DEF end
<1>5. end \in Addresses /\ paging_is_aligned(end) /\ end \in Nat
  BY <1>3, Sizes DEF Pages, Addresses
<1>6. ~Refused(ProgramAddress, addr, end)
  BY <1>0, <1>1, <1>3, <1>4, <1>5, Layout DEF Refused, Pages
<1>7. ProgramAddress \in Addresses
  BY Layout DEF Pages
<1>8. Covers(dir, paging_map_to(dir, ProgramAddress, addr, end, TRUE), ProgramAddress, addr, end - addr, TRUE)
  BY <1>0, <1>5, <1>6, <1>7, MapTo
<1>9. process_map_binary(dir, addr, size) = paging_map_to(dir, ProgramAddress, addr, end, TRUE)
  BY DEF process_map_binary, end, BinaryEnd
<1> QED
  BY <1>3, <1>8, <1>9 DEF end, x

\* Without a size nothing is mapped.
LEMMA EmptyBinary ==
    ASSUME NEW dir \in Directories, NEW addr \in Pages, addr <= WordSize - PageSize
    PROVE  /\ process_map_binary(dir, addr, 0) \in Directories
           /\ \A p \in Pages : paging_get(process_map_binary(dir, addr, 0), p) = paging_get(dir, p)
<1> DEFINE end == BinaryEnd(addr, 0)
           res == process_map_binary(dir, addr, 0)
<1>0. addr \in Nat /\ paging_is_aligned(addr) /\ PageSize \in Nat \ {0} /\ addr + 0 <= WordSize - PageSize
  BY Sizes DEF Pages, Addresses
<1>1. /\ end \in Pages /\ addr + 0 <= end /\ end < addr + 0 + PageSize
      /\ Covers(dir, res, ProgramAddress, addr, end - addr, TRUE)
  BY <1>0, BinaryMaps
<1>2. end \in Nat /\ paging_is_aligned(end)
  BY <1>1, Sizes DEF Pages, Addresses
<1> HIDE DEF end, res
<1>3. end = addr
  BY <1>0, <1>1, <1>2, PageGap
<1>4. Offsets(end - addr) = {}
  BY <1>0, <1>3 DEF Offsets
<1>5. res \in Directories /\ \A p \in Pages : paging_get(res, p) = paging_get(dir, p)
  BY <1>1, <1>4 DEF Covers
<1> QED
  BY <1>5 DEF res

\* The stack is mapped last.
MapStack(dir, stack) ==
    paging_map_to(dir, StackEnd, stack, paging_align_address(stack + StackSize), TRUE)

\* process_map_memory maps the stack.
LEMMA StackMaps ==
    ASSUME NEW dir \in Directories, NEW stack \in Pages, stack + StackSize <= WordSize - PageSize
    PROVE  Covers(dir, MapStack(dir, stack), StackEnd, stack, StackSize, TRUE)
<1> DEFINE x == stack + StackSize
<1>0. /\ stack \in Nat /\ stack \in Addresses /\ paging_is_aligned(stack) /\ WordSize \in Nat
      /\ PageSize \in Nat \ {0}
  BY Sizes DEF Pages, Addresses
<1>1. /\ StackSize \in Nat /\ paging_is_aligned(StackSize)
      /\ StackEnd \in Addresses /\ paging_is_aligned(StackEnd)
  BY Layout DEF Pages
<1>2. x \in Addresses /\ x \in Nat /\ paging_is_aligned(x) /\ stack <= x /\ x - stack = StackSize
  BY <1>0, <1>1, AlignedSum DEF Addresses
<1> HIDE DEF x
<1>3. paging_align_address(x) = x
  BY <1>2 DEF paging_align_address, paging_is_aligned
<1>4. ~Refused(StackEnd, stack, x)
  BY <1>0, <1>1, <1>2 DEF Refused
<1>5. Covers(dir, paging_map_to(dir, StackEnd, stack, x, TRUE), StackEnd, stack, x - stack, TRUE)
  BY <1>0, <1>1, <1>2, <1>4, MapTo
<1>6. MapStack(dir, stack) = paging_map_to(dir, StackEnd, stack, x, TRUE)
  BY <1>3 DEF MapStack, x
<1> QED
  BY <1>2, <1>5, <1>6

\* A directory that maps every page to itself.
Fresh(dir) == dir \in Directories /\ \A p \in Pages : paging_get(dir, p) = paging_get(paging_new_4gb, p)

\* An ELF file: the headers from a fresh directory on, then the stack.
ElfMapping(f, d0, d1, res, memory, phdrs, stack) ==
    /\ Fresh(d0) /\ d1 \in Directories /\ Trace(f, d0, d1, memory, phdrs)
    /\ Covers(d1, res, StackEnd, stack, StackSize, TRUE)

\* An ELF file is mapped unless a header is refused: the image, its segments, the stack.
LEMMA MapsElf ==
    ASSUME NEW addr \in Pages, addr <= WordSize - PageSize, NEW memory \in Pages,
           NEW phdrs \in Seq(elf32_phdr), NEW stack \in Pages, stack + StackSize <= WordSize - PageSize
    PROVE  LET r == process_map_memory("elf", addr, 0, memory, phdrs, stack)
           IN  /\ r.ok <=> \A i \in 1 .. Len(phdrs) : ~HeaderRefused(memory, phdrs[i])
               /\ r.ok => \E f, d0, d1 : ElfMapping(f, d0, d1, r.dir, memory, phdrs, stack)
<1> DEFINE d0 == process_map_binary(paging_new_4gb, addr, 0)
           typed == process_map_elf(d0, memory, phdrs)
           r == process_map_memory("elf", addr, 0, memory, phdrs, stack)
<1>1. Fresh(d0)
  BY EmptyBinary, NewDirectory DEF Fresh
<1>2. r = IF ~typed.ok THEN typed ELSE [typed EXCEPT !.dir = MapStack(@, stack)]
  BY DEF process_map_memory, MapStack
<1> HIDE DEF d0, r
<1>3. /\ typed \in [ok : BOOLEAN, dir : Directories]
      /\ typed.ok <=> \A i \in 1 .. Len(phdrs) : ~HeaderRefused(memory, phdrs[i])
      /\ typed.ok => \E f : Trace(f, d0, typed.dir, memory, phdrs)
  BY <1>1, ElfTrace DEF Fresh
<1> HIDE DEF typed
<1>4. r.ok = typed.ok /\ (typed.ok => r.dir = MapStack(typed.dir, stack))
  BY <1>2, <1>3
<1>5. ASSUME r.ok PROVE \E f, e0, e1 : ElfMapping(f, e0, e1, r.dir, memory, phdrs, stack)
  <2>1. PICK f : Trace(f, d0, typed.dir, memory, phdrs)
    BY <1>3, <1>4, <1>5
  <2>2. typed.dir \in Directories
    BY <1>3
  <2>3. Covers(typed.dir, r.dir, StackEnd, stack, StackSize, TRUE)
    BY <1>4, <1>5, <2>2, StackMaps
  <2>4. ElfMapping(f, d0, typed.dir, r.dir, memory, phdrs, stack)
    BY <1>1, <2>1, <2>2, <2>3 DEF ElfMapping
  <2> QED
    BY <2>4
<1> QED
  BY <1>3, <1>4, <1>5 DEF r

\* A raw binary: its pages, twice, then the stack.
BinaryMapping(d1, d2, res, addr, size, stack) ==
    /\ Covers(paging_new_4gb, d1, ProgramAddress, addr, BinaryEnd(addr, size) - addr, TRUE)
    /\ Covers(d1, d2, ProgramAddress, addr, BinaryEnd(addr, size) - addr, TRUE)
    /\ Covers(d2, res, StackEnd, stack, StackSize, TRUE)

\* A flat binary is always mapped: the image, twice, and the stack.
LEMMA MapsBinary ==
    ASSUME NEW addr \in Pages, NEW size \in Nat, addr + size <= WordSize - PageSize, NEW memory,
           NEW phdrs, NEW stack \in Pages, stack + StackSize <= WordSize - PageSize
    PROVE  LET r == process_map_memory("binary", addr, size, memory, phdrs, stack)
           IN  r.ok /\ \E d1, d2 : BinaryMapping(d1, d2, r.dir, addr, size, stack)
<1> DEFINE d1 == process_map_binary(paging_new_4gb, addr, size)
           d2 == process_map_binary(d1, addr, size)
           typed == [ok |-> TRUE, dir |-> d2]
           r == process_map_memory("binary", addr, size, memory, phdrs, stack)
<1>1. Covers(paging_new_4gb, d1, ProgramAddress, addr, BinaryEnd(addr, size) - addr, TRUE)
  BY NewDirectory, BinaryMaps
<1>2. d1 \in Directories
  BY <1>1 DEF Covers
<1>3. r = IF ~typed.ok THEN typed ELSE [typed EXCEPT !.dir = MapStack(@, stack)]
  BY DEF process_map_memory, MapStack
<1> HIDE DEF d1, r
<1>4. Covers(d1, d2, ProgramAddress, addr, BinaryEnd(addr, size) - addr, TRUE)
  BY <1>2, BinaryMaps
<1>5. d2 \in Directories
  BY <1>4 DEF Covers
<1> HIDE DEF d2
<1>6. r.ok /\ r.dir = MapStack(d2, stack)
  BY <1>3
<1>7. Covers(d2, r.dir, StackEnd, stack, StackSize, TRUE)
  BY <1>5, <1>6, StackMaps
<1>8. BinaryMapping(d1, d2, r.dir, addr, size, stack)
  BY <1>1, <1>4, <1>7 DEF BinaryMapping
<1> QED
  BY <1>6, <1>8 DEF r

-----------------------------------------------------------------------------
\* While a program runs, its directory is the mapping of what was loaded.
RunInv == pc = "running" => Mapping.ok /\ directory = Mapping.dir

\* Only MapProgram starts a program, and no step of a running one changes what it is.
LEMMA RunInvStep == RunInv /\ [Next]_vars => RunInv'
<1> SUFFICES ASSUME RunInv, [Next]_vars PROVE RunInv'
  OBVIOUS
<1>1. CASE UNCHANGED vars
  <2>1. Mapping' = Mapping
    BY <1>1 DEF vars, Mapping, Image, ptr, Object
  <2> QED
    BY <1>1, <2>1 DEF vars, RunInv
<1>2. CASE MapProgram
  <2>1. UNCHANGED <<load, held>> /\ (pc' = "running" => Mapping.ok /\ directory' = Mapping.dir)
    BY <1>2 DEF MapProgram
  <2>2. Mapping' = Mapping
    BY <2>1 DEF Mapping, Image, ptr, Object
  <2> QED
    BY <2>1, <2>2 DEF RunInv
<1>3. CASE Next /\ ~MapProgram
  <2>1. pc' # "running"
    BY <1>3 DEF Next, elf_load, pathparser_create_root, pathparser_get_path_part, EndOfPath,
       pathparser_parse_path_part, fat16_open, fat16_find_item_in_directory, ThroughFile,
       fat16_clone_directory_item, fat16_load_fat_directory, file_new_descriptor,
       fstat_and_kzalloc, ReadFails, ReadSucceeds, process_free_program_data, fopen_fails,
       Parsed, NewItem, NotFound
  <2> QED
    BY <2>1 DEF RunInv
<1> QED
  BY <1>1, <1>2, <1>3

\* Where the heap has put what was loaded.
LEMMA LoadedAt ==
    ASSUME PInv
    PROVE  /\ load.file \in Programs /\ load.opener \in {"elf", "binary"}
           /\ load.file.size \in Nat /\ load.file.phdrs \in Seq(elf32_phdr)
           /\ Image \in Pages /\ Image \in Nat /\ Image + load.file.size <= WordSize - PageSize
           /\ ptr \in Pages /\ ptr <= WordSize - PageSize
           /\ load.opener = "binary" => ptr = Image
           /\ StackAddress \in Pages /\ StackAddress \in Nat
<1>1. load.file \in Programs /\ load.opener \in {"elf", "binary"}
  BY DEF PInv, LoadState
<1>2. /\ load.file.size \in Nat /\ load.file.phdrs \in Seq(elf32_phdr)
      /\ ImageAddress + load.file.size <= WordSize - PageSize
  BY <1>1, ProgramsAssumption
<1>3. \A a \in Pages : a \in Nat /\ a <= WordSize - PageSize
  <2> SUFFICES ASSUME NEW a \in Pages PROVE a \in Nat /\ a <= WordSize - PageSize
    OBVIOUS
  <2>1. a \in Nat /\ paging_is_aligned(a) /\ a < WordSize /\ WordSize \in Nat /\ PageSize \in Nat
    BY Sizes DEF Pages, Addresses
  <2>2. a + PageSize <= WordSize
    BY <2>1, PageGap, WordAligned
  <2> QED
    BY <2>1, <2>2
<1>4. 0 \in Pages /\ ImageAddress \in Pages /\ FileAddress \in Pages /\ StackAddress \in Pages
  BY HeapAssumption, Sizes DEF Pages, Addresses, paging_is_aligned
<1>5. Image \in {0, ImageAddress}
  BY DEF Image
<1>6. ptr \in {0, Image, FileAddress} /\ (load.opener = "binary" => ptr = Image)
  BY DEF ptr
<1>7. Image + load.file.size <= WordSize - PageSize
  <2> DEFINE z == load.file.size
             w == WordSize - PageSize
  <2>1. z \in Nat /\ ImageAddress \in Nat /\ w \in Int /\ ImageAddress + z <= w
    BY <1>2, <1>3, <1>4, Sizes
  <2> HIDE DEF z, w
  <2>2. Image + z <= w
    BY <1>5, <2>1
  <2> QED
    BY <2>2 DEF z, w
<1> QED
  BY <1>1, <1>2, <1>3, <1>4, <1>5, <1>6, <1>7

\* What is mapped.
LEMMA MappingIs ==
    Mapping = process_map_memory(load.opener, ptr, IF load.opener = "binary" THEN load.file.size ELSE 0,
                                 Image, load.file.phdrs, StackAddress)
  BY DEF Mapping

\* The mapping of an ELF file that runs.
LEMMA RunsElf ==
    ASSUME PInv, RunInv, pc = "running", load.opener = "elf"
    PROVE  /\ \A i \in 1 .. Len(load.file.phdrs) : ~HeaderRefused(Image, load.file.phdrs[i])
           /\ \E f, d0, d1 : ElfMapping(f, d0, d1, directory, Image, load.file.phdrs, StackAddress)
<1>1. Mapping.ok /\ directory = Mapping.dir
  BY DEF RunInv
<1>2. Mapping = process_map_memory("elf", ptr, 0, Image, load.file.phdrs, StackAddress)
  BY MappingIs
<1> QED
  BY <1>1, <1>2, LoadedAt, MapsElf, StackAssumption

\* The mapping of a raw binary that runs.
LEMMA RunsBinary ==
    ASSUME PInv, RunInv, pc = "running", load.opener = "binary"
    PROVE  \E d1, d2 : BinaryMapping(d1, d2, directory, Image, load.file.size, StackAddress)
<1>1. Mapping.ok /\ directory = Mapping.dir
  BY DEF RunInv
<1>2. Mapping = process_map_memory("binary", Image, load.file.size, Image, load.file.phdrs, StackAddress)
  BY MappingIs, LoadedAt
<1> QED
  BY <1>1, <1>2, LoadedAt, MapsBinary, StackAssumption

\* The frames of the stack.
LEMMA StackFrames ==
    ASSUME NEW o \in Offsets(StackSize)
    PROVE  StackAddress <= StackAddress + o /\ StackAddress + o < StackAddress + StackSize
<1>1. StackAddress \in Nat /\ StackSize \in Nat
  BY HeapAssumption, Layout, Sizes DEF Addresses
<1> QED
  BY <1>1 DEF Offsets

-----------------------------------------------------------------------------
\* A program that runs, and whose segments lie in its file, writes only its own frames.
LEMMA RunsOwned ==
    ASSUME PInv, RunInv, pc = "running", load.opener = "elf" => WithinFile
    PROVE  Owned(directory, Image, load.file.size, StackAddress)
<1> DEFINE size == load.file.size
<1>0. /\ load.opener \in {"elf", "binary"} /\ size \in Nat /\ load.file.phdrs \in Seq(elf32_phdr)
      /\ Image \in Pages /\ Image \in Nat /\ Image + size <= WordSize - PageSize
  BY LoadedAt
<1>1. \A o \in Offsets(StackSize) :
         StackAddress <= StackAddress + o /\ StackAddress + o < StackAddress + StackSize
  BY StackFrames
<1>2. CASE load.opener = "elf"
  <2>1. \A i \in 1 .. Len(load.file.phdrs) : ~HeaderRefused(Image, load.file.phdrs[i])
    BY <1>2, RunsElf
  <2>2. PICK f, d0, d1 : ElfMapping(f, d0, d1, directory, Image, load.file.phdrs, StackAddress)
    BY <1>2, RunsElf
  <2>3. /\ Fresh(d0) /\ Trace(f, d0, d1, Image, load.file.phdrs)
        /\ Covers(d1, directory, StackEnd, StackAddress, StackSize, TRUE)
    BY <2>2 DEF ElfMapping
  <2>4. Owned(d0, Image, size, StackAddress)
    BY <2>3, NewOwned DEF Fresh
  <2>5. \A i \in 1 .. Len(load.file.phdrs) :
           load.file.phdrs[i].p_offset + load.file.phdrs[i].p_memsz <= size
    BY <1>2 DEF WithinFile
  <2>6. Image + size < WordSize
    <3> HIDE DEF size
    <3> QED
      BY <1>0, Sizes
  <2> HIDE DEF size
  <2>7. Owned(d1, Image, size, StackAddress)
    BY <1>0, <2>1, <2>3, <2>4, <2>5, <2>6, TraceOwned
  <2>8. Owned(directory, Image, size, StackAddress)
    BY <1>1, <2>3, <2>7, CoversOwned
  <2> QED
    BY <2>8 DEF size
<1>3. CASE load.opener = "binary"
  <2> DEFINE end == BinaryEnd(Image, size)
  <2>1. PICK d1, d2 : BinaryMapping(d1, d2, directory, Image, size, StackAddress)
    BY <1>3, RunsBinary
  <2> HIDE DEF size
  <2>2. /\ Covers(paging_new_4gb, d1, ProgramAddress, Image, end - Image, TRUE)
        /\ Covers(d1, d2, ProgramAddress, Image, end - Image, TRUE)
        /\ Covers(d2, directory, StackEnd, StackAddress, StackSize, TRUE)
    BY <2>1 DEF BinaryMapping
  <2>3. end \in Pages /\ end < Image + size + PageSize
    BY <1>0, NewDirectory, BinaryMaps
  <2>4. end \in Nat /\ paging_is_aligned(end) /\ paging_is_aligned(Image)
    BY <1>0, <2>3, Sizes DEF Pages, Addresses
  <2> HIDE DEF end
  <2>5. \A o \in Offsets(end - Image) : Image <= Image + o /\ Image + o < Image + size
    <3>1. Image + size \in Nat
      BY <1>0
    <3> QED
      BY <1>0, <2>3, <2>4, <3>1, FramesBelow
  <2>6. Owned(paging_new_4gb, Image, size, StackAddress)
    BY NewOwned
  <2>7. Owned(d1, Image, size, StackAddress)
    BY <2>2, <2>5, <2>6, CoversOwned
  <2>8. Owned(d2, Image, size, StackAddress)
    BY <2>2, <2>5, <2>7, CoversOwned
  <2>9. Owned(directory, Image, size, StackAddress)
    BY <1>1, <2>2, <2>8, CoversOwned
  <2> QED
    BY <2>9 DEF size
<1> QED
  BY <1>0, <1>2, <1>3

\* For every file, ELF or raw, whatever its headers ask for: when its segments lie in the
\* file, a program can write no frame but those of its image and of its stack, and every
\* other page maps to itself, read-only.
THEOREM ProgramsWriteOwnFrames ==
    ASSUME MAEROS_MAX_FILE_DESCRIPTORS > 1
    PROVE  Spec => []WritesOwnFrames
<1>1. Init => PInv /\ RunInv
  BY PInvInit DEF Init, RunInv
<1>2. PInv /\ RunInv /\ [Next]_vars => PInv' /\ RunInv'
  BY PInvStep, RunInvStep
<1>3. PInv /\ RunInv => WritesOwnFrames
  <2>1. ASSUME PInv, RunInv, pc = "running", load.opener = "elf" => WithinFile
        PROVE  Owned(directory, Image, load.file.size, StackAddress)
    BY <2>1, RunsOwned
  <2> QED
    BY <2>1 DEF WritesOwnFrames, Owned, Pages
<1> QED
  BY <1>1, <1>2, <1>3, PTL DEF Spec

-----------------------------------------------------------------------------
\* For every file with headers: the extent that elf_process_pheaders finds is that of the
\* loadable segments, as long as none is at 0 and none wraps.
THEOREM ElfExtentsExact ==
    ASSUME MAEROS_MAX_FILE_DESCRIPTORS > 1
    PROVE  Spec => []ExtentExact
<1>1. Init => PInv
  BY PInvInit
<1>2. PInv /\ [Next]_vars => PInv'
  BY PInvStep
<1>3. PInv => ExtentExact
  <2> DEFINE phdrs == load.file.phdrs
             x == elf_process_pheaders(Image, phdrs)
             starts == {phdrs[i].p_vaddr : i \in Loads}
             ends == {phdrs[i].p_vaddr + phdrs[i].p_filesz : i \in Loads}
  <2> SUFFICES ASSUME PInv, Loads # {}, 0 \notin starts, ends \subseteq Addresses
               PROVE  /\ x.base \in starts /\ \A a \in starts : x.base <= a
                      /\ x.end \in ends /\ \A a \in ends : a <= x.end
    BY Zenon DEF ExtentExact
  <2>1. phdrs \in Seq(elf32_phdr) /\ Image \in Nat
    BY LoadedAt
  <2>2. Loads = LoadsOf(phdrs, Len(phdrs))
    BY DEF Loads, LoadsOf
  <2>3. \A a \in Addresses : a < WordSize
    BY Sizes DEF Addresses
  <2>4. \A j \in Loads : phdrs[j].p_vaddr # 0 /\ LastOf(phdrs[j]) < WordSize
    BY <2>3 DEF LastOf
  <2> HIDE DEF phdrs
  <2>5. ExtentOf(x, phdrs, Len(phdrs))
    BY <2>1, <2>2, <2>4, ElfExtent
  <2> HIDE DEF x
  <2>6. /\ \E j \in Loads : x.base = phdrs[j].p_vaddr
        /\ \E j \in Loads : x.end = phdrs[j].p_vaddr + phdrs[j].p_filesz
        /\ \A j \in Loads : x.base <= phdrs[j].p_vaddr /\ phdrs[j].p_vaddr + phdrs[j].p_filesz <= x.end
    BY <2>2, <2>5 DEF ExtentOf, LastOf
  <2> QED
    BY <2>6
<1> QED
  BY <1>1, <1>2, <1>3, PTL DEF Spec

-----------------------------------------------------------------------------
\* The pages of the stack are those that are mapped for it.
LEMMA StackPagesAre ==
    /\ StackPages = {StackEnd + o : o \in Offsets(StackSize)}
    /\ \A o \in Offsets(StackSize) : (StackEnd + o) % WordSize = StackEnd + o
                                     /\ o \in Nat /\ StackEnd + o \in Pages
<1>1. StackPages = {StackEnd + o : o \in Offsets(StackSize)}
  BY DEF StackPages, Offsets
<1>2. ASSUME NEW o \in Offsets(StackSize)
      PROVE  StackEnd + o \in Addresses /\ o \in Nat /\ StackEnd + o \in Pages
  <2>1. /\ StackSize \in Nat /\ StackEnd \in Nat /\ StackEnd + StackSize <= WordSize
        /\ WordSize \in Nat /\ paging_is_aligned(StackEnd)
    BY Layout, Sizes DEF Pages
  <2>2. o \in Nat /\ o < StackSize /\ paging_is_aligned(o)
    BY <2>1 DEF Offsets
  <2>3. StackEnd + o \in Addresses
    BY <2>1, <2>2 DEF Addresses
  <2>4. paging_is_aligned(StackEnd + o)
    BY <2>1, <2>2, AlignedSum
  <2> QED
    BY <2>2, <2>3, <2>4 DEF Pages
<1> QED
  BY <1>1, <1>2, Words

\* What the stack does not take stays, and the stack is there.
LEMMA StackTakes ==
    ASSUME NEW d, NEW res, Covers(d, res, StackEnd, StackAddress, StackSize, TRUE)
    PROVE  /\ \A p \in Pages : p \notin StackPages => paging_get(res, p) = paging_get(d, p)
           /\ \A p \in StackPages :
                paging_get(res, p) = [frame |-> StackAddress + (p - StackEnd), writeable |-> TRUE]
<1>1. ASSUME NEW p \in Pages, p \notin StackPages PROVE paging_get(res, p) = paging_get(d, p)
  <2>1. \A o \in Offsets(StackSize) : p # (StackEnd + o) % WordSize
    BY <1>1, StackPagesAre
  <2> QED
    BY <2>1 DEF Covers
<1>2. ASSUME NEW p \in StackPages
      PROVE  paging_get(res, p) = [frame |-> StackAddress + (p - StackEnd), writeable |-> TRUE]
  <2>1. PICK o \in Offsets(StackSize) : p = StackEnd + o
    BY StackPagesAre
  <2>2. paging_get(res, (StackEnd + o) % WordSize) = [frame |-> StackAddress + o, writeable |-> TRUE]
    BY DEF Covers
  <2>3. (StackEnd + o) % WordSize = StackEnd + o /\ o \in Nat /\ StackEnd \in Nat
    BY StackPagesAre, Layout
  <2>4. p - StackEnd = o
    BY <2>1, <2>3
  <2> QED
    BY <2>1, <2>2, <2>3, <2>4
<1> QED
  BY <1>1, <1>2

\* A word after an aligned one lies where its offset lies.
LEMMA SameInPage ==
    ASSUME NEW a \in Nat, NEW b \in Nat, paging_is_aligned(a)
    PROVE  (a + b) % PageSize = b % PageSize
<1> DEFINE q == a \div PageSize
           m == b \div PageSize
           r == b % PageSize
<1>1. q \in Nat /\ a = q * PageSize
  BY AlignedIsWhole
<1>2. m \in Nat /\ r \in 0 .. PageSize - 1 /\ b = PageSize * m + r
  BY Divides, Sizes
<1> HIDE DEF q, m, r
<1>3. a + b = PageSize * (q + m) + r /\ q + m \in Nat
  BY <1>1, <1>2, Sizes
<1> DEFINE n == q + m
<1> HIDE DEF n
<1>4. (PageSize * n + r) % PageSize = r
  BY <1>2, <1>3, Sizes, Unique DEF n
<1> QED
  BY <1>3, <1>4, Zenon DEF r, n

\* Where a sound segment lies.
LEMMA SoundSegment ==
    ASSUME NEW memory \in Pages, NEW h \in elf32_phdr, NEW k \in Nat, k < h.p_memsz,
           h.p_offset % PageSize = h.p_vaddr % PageSize,
           memory + h.p_offset + h.p_memsz <= WordSize - PageSize
    PROVE  /\ PhysOf(memory, h) = memory + h.p_offset
           /\ h.p_vaddr % PageSize = PhysOf(memory, h) % PageSize
           /\ EndOf(memory, h) \in Addresses /\ paging_is_aligned(EndOf(memory, h))
           /\ PhysOf(memory, h) + k < EndOf(memory, h)
<1> DEFINE off == h.p_offset
           sz == h.p_memsz
           x == (memory + off) + sz
<1>0. /\ memory \in Nat /\ off \in Nat /\ sz \in Nat /\ WordSize \in Nat /\ PageSize \in Nat \ {0}
      /\ paging_is_aligned(memory) /\ EndOf(memory, h) \in Pages
  BY HeaderWords, Sizes DEF Pages
<1>1. k < sz /\ x <= WordSize - PageSize
  OBVIOUS
<1>2. PhysOf(memory, h) = (memory + off) % WordSize
  BY DEF PhysOf
<1>3. off % PageSize = h.p_vaddr % PageSize
  OBVIOUS
<1> HIDE DEF off, sz
<1>4. memory + off \in Addresses /\ x \in Addresses /\ x \in Nat
  BY <1>0, <1>1 DEF Addresses
<1>5. PhysOf(memory, h) = memory + off
  BY <1>2, <1>4, Words
<1>6. (memory + off) % PageSize = off % PageSize
  BY <1>0, SameInPage
<1>7. EndOf(memory, h) = paging_align_address(x)
  <2>1. EndOf(memory, h) = paging_align_address(x % WordSize)
    BY <1>5 DEF EndOf, sz
  <2> QED
    BY <1>4, <2>1, Words
<1> HIDE DEF x
<1>8. x <= EndOf(memory, h)
  BY <1>0, <1>1, <1>4, <1>7, AlignUp
<1>9. EndOf(memory, h) \in Nat
  BY <1>0, Sizes DEF Pages, Addresses
<1>10. (memory + off) + k < EndOf(memory, h)
  BY <1>0, <1>1, <1>8, <1>9 DEF x
<1> QED
  BY <1>0, <1>3, <1>5, <1>6, <1>10 DEF Pages, off

\* A byte of an ELF file that runs.
LEMMA ElfByte ==
    ASSUME PInv, RunInv, pc = "running", load.opener = "elf", NEW i \in Loads,
           NEW k \in 0 .. load.file.phdrs[i].p_filesz - 1, Sound(load.file.phdrs[i])
    PROVE  LET h == load.file.phdrs[i]
               virt == (h.p_vaddr + k) % WordSize
               page == paging_align_to_lower_page(virt)
           IN  \/ page \in StackPages
               \/ \E j \in 1 .. Len(load.file.phdrs) : j > i /\ page \in PagesOf(j)
               \/ paging_get_physical_address(directory, virt) = Image + h.p_offset + k
<1> DEFINE phdrs == load.file.phdrs
           h == phdrs[i]
           virt == (h.p_vaddr + k) % WordSize
           page == paging_align_to_lower_page(virt)
           low == paging_align_to_lower_page(PhysOf(Image, h))
           base == paging_align_to_lower_page(h.p_vaddr)
<1>0. /\ phdrs \in Seq(elf32_phdr) /\ Image \in Pages /\ Image \in Nat
      /\ i \in 1 .. Len(phdrs) /\ h \in elf32_phdr
  BY LoadedAt DEF Loads
<1>1. \A j \in 1 .. Len(phdrs) : PagesOf(j) = HeaderPages(Image, phdrs[j])
  BY DEF PagesOf, HeaderPages, LengthOf, Offsets
<1>2. \A j \in 1 .. Len(phdrs) : ~HeaderRefused(Image, phdrs[j])
  BY RunsElf
<1>3. PICK f, d0, d1 : ElfMapping(f, d0, d1, directory, Image, phdrs, StackAddress)
  BY RunsElf
<1>4. Trace(f, d0, d1, Image, phdrs) /\ Covers(d1, directory, StackEnd, StackAddress, StackSize, TRUE)
  BY <1>3 DEF ElfMapping
<1>5. k \in Nat /\ k < h.p_memsz
  <2>1. h.p_filesz \in Nat /\ h.p_memsz \in Nat
    BY <1>0, HeaderFields
  <2>2. h.p_filesz <= h.p_memsz
    BY DEF Sound
  <2>3. k \in 0 .. h.p_filesz - 1
    OBVIOUS
  <2> HIDE DEF h
  <2> QED
    BY <2>1, <2>2, <2>3
<1>6. /\ h.p_offset % PageSize = h.p_vaddr % PageSize
      /\ Image + h.p_offset + h.p_memsz <= WordSize - PageSize
  BY DEF Sound
<1> HIDE DEF phdrs, h
<1>7. /\ PhysOf(Image, h) = Image + h.p_offset
      /\ h.p_vaddr % PageSize = PhysOf(Image, h) % PageSize
      /\ EndOf(Image, h) \in Addresses /\ paging_is_aligned(EndOf(Image, h))
      /\ PhysOf(Image, h) + k < EndOf(Image, h)
  BY <1>0, <1>5, <1>6, SoundSegment
<1>8. h.p_vaddr \in Addresses /\ PhysOf(Image, h) \in Addresses
  BY <1>0, HeaderWords
<1>9. PICK o \in Offsets(EndOf(Image, h) - low) : ByteAt(h.p_vaddr, PhysOf(Image, h), k, o)
  BY <1>5, <1>7, <1>8, ByteOfRange
<1>10. page \in Pages /\ page = (base + o) % WordSize /\ (low + o) + (virt - page) = PhysOf(Image, h) + k
  BY <1>9, Zenon DEF ByteAt
<1>11. o \in Offsets(LengthOf(Image, h))
  BY DEF LengthOf
<1>12. ASSUME page \notin StackPages, \A j \in 1 .. Len(phdrs) : j > i => page \notin HeaderPages(Image, phdrs[j])
       PROVE  paging_get_physical_address(directory, virt) = Image + h.p_offset + k
  <2> HIDE DEF page, virt, low, base
  <2>1. paging_get(d1, page) = [frame |-> low + o, writeable |-> h.PF_W]
    <3>1. LaterSpare(Image, phdrs, i, page) /\ NoneRefused(Image, phdrs)
      BY <1>2, <1>12 DEF LaterSpare, NoneRefused
    <3>2. page = HeaderPage(phdrs[i], o)
      BY <1>10 DEF base, h, HeaderPage
    <3>3. o \in Offsets(LengthOf(Image, phdrs[i]))
      BY <1>11 DEF h
    <3>4. Trace(f, d0, d1, Image, phdrs) /\ page \in Pages
      BY <1>4, <1>10
    <3>5. TakenLast(f, d0, d1, Image, phdrs, i, o, page)
      BY <1>0, <3>1, <3>2, <3>3, <3>4, Zenon DEF TakenLast
    <3>6. paging_get(d1, page) = HeaderEntry(Image, phdrs[i], o)
      BY <3>5, TraceKeeps
    <3> QED
      BY <3>6 DEF h, low, HeaderEntry
  <2>2. paging_get(directory, page) = paging_get(d1, page)
    BY <1>4, <1>10, <1>12, StackTakes
  <2>3. paging_get(directory, page).frame = low + o
    BY <2>1, <2>2
  <2>4. paging_get_physical_address(directory, virt) = (low + o) + (virt - page)
    BY <2>3 DEF paging_get_physical_address, page
  <2>5. paging_get_physical_address(directory, virt) = (Image + h.p_offset) + k
    BY <1>7, <1>10, <2>4
  <2> QED
    BY <2>5
<1>13. \/ page \in StackPages
       \/ \E j \in 1 .. Len(phdrs) : j > i /\ page \in HeaderPages(Image, phdrs[j])
       \/ paging_get_physical_address(directory, virt) = Image + h.p_offset + k
  <2> HIDE DEF page, virt
  <2> QED
    BY <1>12
<1>14. \/ page \in StackPages
       \/ \E j \in 1 .. Len(phdrs) : j > i /\ page \in PagesOf(j)
       \/ paging_get_physical_address(directory, virt) = Image + h.p_offset + k
  <2> HIDE DEF page, virt
  <2> QED
    BY <1>1, <1>13
<1> QED
  BY <1>14, Zenon DEF h, phdrs

\* A byte of a raw binary that runs.
LEMMA BinaryByte ==
    ASSUME PInv, RunInv, pc = "running", load.opener = "binary", NEW k \in 0 .. load.file.size - 1
    PROVE  LET virt == (ProgramAddress + k) % WordSize
           IN  \/ paging_align_to_lower_page(virt) \in StackPages
               \/ paging_get_physical_address(directory, virt) = Image + k
<1> DEFINE size == load.file.size
           virt == (ProgramAddress + k) % WordSize
           page == paging_align_to_lower_page(virt)
           end == BinaryEnd(Image, size)
<1>0. /\ size \in Nat /\ Image \in Pages /\ Image \in Nat /\ Image + size <= WordSize - PageSize
      /\ k \in Nat /\ k < size
  BY LoadedAt
<1>1. PICK d1, d2 : BinaryMapping(d1, d2, directory, Image, size, StackAddress)
  BY RunsBinary
<1> HIDE DEF size
<1>2. /\ Covers(d1, d2, ProgramAddress, Image, end - Image, TRUE)
      /\ Covers(d2, directory, StackEnd, StackAddress, StackSize, TRUE)
  BY <1>1 DEF BinaryMapping
<1>3. end \in Pages /\ Image + size <= end
  BY <1>0, NewDirectory, BinaryMaps
<1>4. end \in Nat /\ end \in Addresses /\ paging_is_aligned(end)
  BY <1>3, Sizes DEF Pages, Addresses
<1> HIDE DEF end
<1>5. /\ ProgramAddress \in Addresses /\ Image \in Addresses /\ ProgramAddress \in Nat
      /\ ProgramAddress % PageSize = 0 /\ Image % PageSize = 0
  BY <1>0, Layout DEF Pages, paging_is_aligned
<1>6. paging_align_to_lower_page(ProgramAddress) = ProgramAddress
      /\ paging_align_to_lower_page(Image) = Image
  BY <1>0, <1>5 DEF paging_align_to_lower_page
<1>7. Image + k < end
  BY <1>0, <1>3, <1>4
<1>8. PICK o \in Offsets(end - Image) :
        page \in Pages /\ page = (ProgramAddress + o) % WordSize /\ (Image + o) + (virt - page) = Image + k
  <2>0. ProgramAddress % PageSize = Image % PageSize
    BY <1>5
  <2>1. \E o \in Offsets(end - paging_align_to_lower_page(Image)) : ByteAt(ProgramAddress, Image, k, o)
    BY <1>0, <1>4, <1>5, <1>7, <2>0, ByteOfRange
  <2>2. \E o \in Offsets(end - Image) : ByteAt(ProgramAddress, Image, k, o)
    BY <1>6, <2>1
  <2>3. PICK o \in Offsets(end - Image) : ByteAt(ProgramAddress, Image, k, o)
    BY <2>2
  <2>4. /\ page \in Pages
        /\ page = (paging_align_to_lower_page(ProgramAddress) + o) % WordSize
        /\ (paging_align_to_lower_page(Image) + o) + (virt - page) = Image + k
    BY <2>3, Zenon DEF ByteAt
  <2> HIDE DEF page, virt
  <2> QED
    BY <1>6, <2>3, <2>4
<1>9. ASSUME page \notin StackPages
      PROVE  paging_get_physical_address(directory, virt) = Image + k
  <2> HIDE DEF page, virt
  <2>1. paging_get(d2, page) = [frame |-> Image + o, writeable |-> TRUE]
    BY <1>2, <1>8 DEF Covers
  <2>2. paging_get(directory, page) = paging_get(d2, page)
    BY <1>2, <1>8, <1>9, StackTakes
  <2>3. paging_get(directory, page).frame = Image + o
    BY <2>1, <2>2
  <2>4. paging_get_physical_address(directory, virt) = (Image + o) + (virt - page)
    BY <2>3 DEF paging_get_physical_address, page
  <2> QED
    BY <1>8, <2>4
<1> QED
  BY <1>9, Zenon

\* For every file, whatever its headers and wherever they lie: a running program finds at
\* the address of each byte of a sound loadable segment, or of its raw binary, that byte,
\* unless a later header or the stack takes the page; and its stack.
THEOREM ProgramsSeeSegments ==
    ASSUME MAEROS_MAX_FILE_DESCRIPTORS > 1
    PROVE  Spec => []SegmentsVisible
<1>1. Init => PInv /\ RunInv
  BY PInvInit DEF Init, RunInv
<1>2. PInv /\ RunInv /\ [Next]_vars => PInv' /\ RunInv'
  BY PInvStep, RunInvStep
<1>3. PInv /\ RunInv => SegmentsVisible
  <2> SUFFICES ASSUME PInv, RunInv, pc = "running" PROVE SegmentsVisible
    BY DEF SegmentsVisible
  <2>1. ASSUME NEW p \in StackPages
        PROVE  paging_get(directory, p) = [frame |-> StackAddress + (p - StackEnd), writeable |-> TRUE]
    <3>1. CASE load.opener = "elf"
      BY <3>1, RunsElf, StackTakes DEF ElfMapping
    <3>2. CASE load.opener = "binary"
      BY <3>2, RunsBinary, StackTakes DEF BinaryMapping
    <3> QED
      BY <3>1, <3>2, LoadedAt
  <2>2. ASSUME load.opener = "elf"
        PROVE  \A i \in Loads : LET h == load.file.phdrs[i] IN
                 \A k \in 0 .. h.p_filesz - 1 :
                    LET virt == (h.p_vaddr + k) % WordSize
                        page == paging_align_to_lower_page(virt)
                    IN  \/ ~Sound(h) \/ page \in StackPages
                        \/ \E j \in 1 .. Len(load.file.phdrs) : j > i /\ page \in PagesOf(j)
                        \/ paging_get_physical_address(directory, virt) = Image + h.p_offset + k
    BY <2>2, ElfByte, Zenon
  <2>3. ASSUME load.opener = "binary"
        PROVE  \A k \in 0 .. load.file.size - 1 :
                 LET virt == (ProgramAddress + k) % WordSize
                 IN  \/ paging_align_to_lower_page(virt) \in StackPages
                     \/ paging_get_physical_address(directory, virt) = Image + k
    BY <2>3, BinaryByte, Zenon
  <2> QED
    BY <2>1, <2>2, <2>3, Zenon DEF SegmentsVisible
<1> QED
  BY <1>1, <1>2, <1>3, PTL DEF Spec

-----------------------------------------------------------------------------
\* The objects of a load.
Roles == {"elf_file", "root", "string", "part", "fat_descriptor", "item", "clone", "directory",
          "entries", "descriptor", "image"}

\* The phases with a fat_file_descriptor, and those in which the item of the path's last
\* part is there.
WithFat == Following \cup {"through", "new", "image", "read"}
AtItem == {"new", "image", "read"}

\* Whether part k of the path has its complete item, as long as memory lasts: the part
\* before the one that is looked up, or the last.
ItemThere(k) ==
    \/ pc \in Following \cup {"through"} /\ k = load.n - 1 /\ k # 0
    \/ pc \in AtItem /\ k = load.n

\* What a load holds of the fopen that it is in, and of what comes after.
HoldsNow(r, k) ==
    \/ r = "root" /\ k = 0 /\ pc # "root"
    \/ r = "part" /\ k \in 1 .. load.parts
    \/ r = "string" /\ (k \in 1 .. load.parts \/ (pc = "part" /\ k = load.parts + 1))
    \/ r = "fat_descriptor" /\ k = 0 /\ pc \in WithFat
    \/ r = "item" /\ (ItemThere(k) \/ (pc \in {"directory", "clone", "entries"} /\ k = load.n))
    \/ r = "clone" /\ ItemThere(k) /\ load.path[k] = "file"
    \/ r = "directory" /\ ((ItemThere(k) /\ load.path[k] = "dir") \/ (pc = "entries" /\ k = load.n))
    \/ r = "entries" /\ ItemThere(k) /\ load.path[k] = "dir"
    \/ r = "descriptor" /\ k = 0 /\ pc \in {"image", "read"}
    \/ r = "image" /\ k = 0 /\ pc \in {"read", "loaded", "running"}

\* What stays of elf_load when the file is opened again: the path and the image.
HoldsBefore(r, k) ==
    \/ r \in {"root", "image"} /\ k = 0
    \/ r \in {"string", "part"} /\ k \in 1 .. Len(load.path)

\* What a load holds.
Holds(o, r, k) ==
    \/ o = "elf" /\ r = "elf_file" /\ k = 0
    \/ o = load.opener /\ HoldsNow(r, k)
    \/ o = "elf" /\ load.opener = "binary" /\ HoldsBefore(r, k)

\* What stays when the load has ended.
Stays(o, r, k) ==
    \/ o \in Openers /\ r = "root" /\ k = 0
    \/ o \in Openers /\ r \in {"string", "part"} /\ k \in 1 .. Len(load.path)
    \/ o = "elf" /\ r \in {"item", "clone"} /\ k \in 1 .. Len(load.path) /\ FileInPath(k)
    \/ ~Runs /\ o = "elf" /\ r = "elf_file" /\ k = 0
    \/ ~Runs /\ o = "elf" /\ r = "image" /\ k = 0 /\ Leads

Kinds == {"elf", "binary"}
Objects == Kinds \X Roles \X Nat

HoldsInv == /\ held \subseteq Objects
            /\ \A o \in Kinds, r \in Roles, k \in Nat : <<o, r, k>> \in held <=> Holds(o, r, k)
StaysInv == /\ held \subseteq Objects
            /\ \A o \in Kinds, r \in Roles, k \in Nat : <<o, r, k>> \in held <=> Stays(o, r, k)

\* The second fopen is of a file that is none; the first went on with one that is; a file
\* with parts behind it is the first.
Sorted ==
    /\ load.opener = "binary" => load.file.readable /\ ~elf_validate_loaded(load.file)
    /\ pc \in {"loaded", "running"} => load.file.readable
    /\ pc \in {"loaded", "running"} /\ load.opener = "elf" => elf_validate_loaded(load.file)
    /\ pc = "running" /\ load.opener = "elf" => Runs
    /\ pc = "through" => \A j \in 1 .. load.n - 2 : load.path[j] = "dir"

\* As long as memory lasts: what a load holds on the way, and at its end.
HInv ==
    failures = 0 =>
        /\ pc # "idle" => Sorted /\ HoldsInv
        /\ pc = "idle" /\ held # {} => StaysInv

-----------------------------------------------------------------------------
\* Objects are told apart by opener, role and part.
LEMMA Triples ==
    ASSUME NEW a, NEW b, NEW c, NEW d, NEW e, NEW f
    PROVE  <<a, b, c>> = <<d, e, f>> <=> a = d /\ b = e /\ c = f
  OBVIOUS

\* An object that is taken.
LEMMA TakenHolds ==
    ASSUME HoldsInv, NEW role \in Roles, NEW n \in Nat, load.opener \in Kinds,
           held' = held \cup {Object(role, n)},
           \A o \in Kinds, r \in Roles, k \in Nat :
             Holds(o, r, k)' <=> Holds(o, r, k) \/ (o = load.opener /\ r = role /\ k = n)
    PROVE  HoldsInv'
<1>1. held' \subseteq Objects
  BY DEF HoldsInv, Objects, Object
<1>2. \A o \in Kinds, r \in Roles, k \in Nat :
        <<o, r, k>> \in held' <=> <<o, r, k>> \in held \/ (o = load.opener /\ r = role /\ k = n)
  BY Triples DEF Object
<1> QED
  BY <1>1, <1>2 DEF HoldsInv

\* Whether an object is one of the item of part n.
OfItem(o, r, k, n) ==
    o = load.opener /\ r \in {"item", "clone", "directory", "entries"} /\ k = n

\* The objects of an item.
LEMMA ItemObjects ==
    ASSUME NEW n, NEW o, NEW r, NEW k
    PROVE  <<o, r, k>> \in fat16_fat_item_free(n) <=> OfItem(o, r, k, n)
<1>1. <<o, r, k>> \in fat16_fat_item_free(n) <=>
        \E s \in {"item", "clone", "directory", "entries"} : <<o, r, k>> = <<load.opener, s, n>>
  BY DEF fat16_fat_item_free, Object
<1> QED
  BY <1>1, Triples DEF OfItem

\* What matters of a load's phases, as long as memory lasts.
LEMMA PhaseFacts ==
    ASSUME PInv, failures = 0, pc # "idle"
    PROVE  /\ load.opener \in Kinds /\ load.n \in Nat /\ load.parts \in Nat /\ Len(load.path) \in Nat
           /\ pc \notin Parsing => load.parts = Len(load.path) /\ load.n \in 1 .. load.parts
           /\ pc = "root" => load.parts = 0
           /\ pc \in Following => DirsBefore
           /\ pc \in {"directory", "entries"} => load.path[load.n] = "dir"
           /\ pc = "clone" => load.path[load.n] = "file"
           /\ pc = "through" => load.n > 1 /\ load.path[load.n - 1] = "file"
           /\ pc \in Found => load.n = load.parts /\ DirsBefore /\ load.item.kind = load.path[load.n]
           /\ pc \in {"read", "loaded", "running"} => load.item.kind = "file"
           /\ load.opener = "binary" => Leads
           /\ pc \notin Parsing => load.item.data = "ok"
<1>1. load \in LoadState /\ Len(load.path) \in Nat
  BY LoadTypes
<1> QED
  BY <1>1 DEF PInv, LoadState, Kinds, ParsedInv, ParsingInv, FollowingInv, FoundInv, MemoryLasts,
     Parsing, Following, Found

\* After a failed allocation nothing is said of what is held.
LEMMA HeldUnknown ==
    ASSUME failures' \in Nat, failures' > 0
    PROVE  HInv'
<1>1. failures' # 0
  OBVIOUS
<1> QED
  BY <1>1 DEF HInv

\* Before the file is read, what is known of it does not change.
LEMMA SortedStays ==
    ASSUME Sorted, load'.opener = load.opener, load'.file = load.file,
           pc' \notin {"loaded", "running", "through"}
    PROVE  Sorted'
  BY DEF Sorted

\* A step that takes an object, and leaves the load alone.
LEMMA TakeStep ==
    ASSUME PInv, HInv, failures = 0, pc # "idle", NEW role \in Roles, NEW n \in Nat, Take(role, n),
           load' = load, pc' \notin {"idle", "loaded", "running", "through"},
           \A o \in Kinds, r \in Roles, k \in Nat :
             Holds(o, r, k)' <=> Holds(o, r, k) \/ (o = load.opener /\ r = role /\ k = n)
    PROVE  HInv'
<1>1. Sorted /\ HoldsInv /\ load.opener \in Kinds
  BY PhaseFacts DEF HInv
<1>2. Sorted'
  BY <1>1, SortedStays
<1>3. HoldsInv'
  BY <1>1, TakenHolds DEF Take
<1> QED
  BY <1>2, <1>3 DEF HInv

\* The same holds when only the phase changes.
LEMMA SameHolds ==
    ASSUME HoldsInv, held' = held,
           \A o \in Kinds, r \in Roles, k \in Nat : Holds(o, r, k)' <=> Holds(o, r, k)
    PROVE  HoldsInv'
  BY DEF HoldsInv

\* fopen begins, and the path is parsed.
LEMMA HeldParsing ==
    ASSUME PInv, HInv, failures = 0,
           \/ pc = "root" /\ Take("root", 0) /\ pc' = "string"
           \/ pc = "string" /\ Take("string", load.parts + 1) /\ pc' = "part",
           load' = load
    PROVE  HInv'
<1>0. load.parts \in Nat /\ (pc = "root" => load.parts = 0)
  BY PhaseFacts
<1>1. CASE pc = "root" /\ Take("root", 0) /\ pc' = "string"
  <2>1. \A o \in Kinds, r \in Roles, k \in Nat :
          Holds(o, r, k)' <=> Holds(o, r, k) \/ (o = load.opener /\ r = "root" /\ k = 0)
    BY <1>0, <1>1 DEF Holds, HoldsNow, HoldsBefore, ItemThere, WithFat, AtItem, Following
  <2> QED
    BY <1>1, <2>1, TakeStep DEF Roles
<1>2. CASE pc = "string" /\ Take("string", load.parts + 1) /\ pc' = "part"
  <2>1. \A o \in Kinds, r \in Roles, k \in Nat :
          Holds(o, r, k)' <=> Holds(o, r, k) \/ (o = load.opener /\ r = "string" /\ k = load.parts + 1)
    BY <1>0, <1>2 DEF Holds, HoldsNow, HoldsBefore, ItemThere, WithFat, AtItem, Following
  <2> QED
    BY <1>0, <1>2, <2>1, TakeStep DEF Roles
<1> QED
  BY <1>1, <1>2

\* A part of the path.
LEMMA HeldPart ==
    ASSUME PInv, HInv, failures = 0, pc = "part", Take("part", load.parts + 1), pc' = "string",
           load' = [load EXCEPT !.parts = @ + 1]
    PROVE  HInv'
<1>0. load.parts \in Nat /\ load.opener \in Kinds /\ load \in LoadState
  BY PhaseFacts, LoadTypes
<1>1. /\ load'.opener = load.opener /\ load'.file = load.file /\ load'.parts = load.parts + 1
      /\ load'.path = load.path /\ load'.n = load.n
  BY <1>0 DEF LoadState
<1>2. \A o \in Kinds, r \in Roles, k \in Nat :
        Holds(o, r, k)' <=> Holds(o, r, k) \/ (o = load.opener /\ r = "part" /\ k = load.parts + 1)
  BY <1>0, <1>1 DEF Holds, HoldsNow, HoldsBefore, ItemThere, WithFat, AtItem, Following
<1>3. Sorted /\ HoldsInv
  BY DEF HInv
<1>4. HoldsInv'
  BY <1>0, <1>2, <1>3, TakenHolds DEF Take, Roles
<1>5. Sorted'
  BY <1>1, <1>3, SortedStays
<1> QED
  BY <1>4, <1>5 DEF HInv

\* The path is parsed to its end.
LEMMA HeldParsed ==
    ASSUME PInv, HInv, failures = 0, pc = "string", load.parts = Len(load.path), Parsed({}),
           load' = load
    PROVE  HInv'
<1>0. /\ load.parts \in Nat /\ load.opener \in Kinds /\ Sorted /\ HoldsInv
      /\ load.path \in Seq({"file", "dir", "none"}) /\ (load.opener = "binary" => Leads)
  BY PhaseFacts, LoadTypes DEF HInv
<1>1. CASE load.parts = 0
  <2>1. pc' = "idle" /\ held' = held
    BY <1>1 DEF Parsed, fopen_fails
  <2>2. load.path = <<>> /\ ~Leads /\ load.opener = "elf" /\ Len(load.path) = 0
    <3>1. Len(load.path) = 0
      BY <1>1
    <3>2. load.path = <<>>
      BY <1>0, <3>1
    <3>3. ~Leads
      BY <3>2 DEF Leads
    <3> QED
      BY <1>0, <3>1, <3>2, <3>3 DEF Kinds
  <2>3. ~Runs /\ ~Leads /\ Openers = {"elf"}
    BY <2>2 DEF Runs, Openers
  <2>4. \A o \in Kinds, r \in Roles, k \in Nat : Stays(o, r, k) <=> Holds(o, r, k)
    BY <1>1, <2>2, <2>3 DEF Stays, Holds, HoldsNow, HoldsBefore, ItemThere, WithFat, AtItem, Following
  <2>5. \A o \in Kinds, r \in Roles, k \in Nat : Stays(o, r, k)' <=> Stays(o, r, k)
    BY <2>1 DEF Stays, Runs, Leads, Openers, FileInPath
  <2>6. StaysInv'
    BY <1>0, <2>1, <2>4, <2>5 DEF StaysInv, HoldsInv
  <2> QED
    BY <2>1, <2>6 DEF HInv
<1>2. CASE load.parts # 0
  <2>1. pc' = "open" /\ held' = held
    BY <1>2 DEF Parsed
  <2>2. \A o \in Kinds, r \in Roles, k \in Nat : Holds(o, r, k)' <=> Holds(o, r, k)
    BY <1>0, <2>1 DEF Holds, HoldsNow, HoldsBefore, ItemThere, WithFat, AtItem, Following
  <2> QED
    BY <1>0, <2>1, <2>2, SameHolds, SortedStays DEF HInv
<1> QED
  BY <1>1, <1>2

\* fat16_open, and an item or a directory that is found.
LEMMA HeldFound ==
    ASSUME PInv, HInv, failures = 0, load' = load,
           \/ pc = "open" /\ Take("fat_descriptor", 0) /\ pc' = "find"
           \/ pc = "find" /\ Take("item", load.n) /\ pc' \in {"directory", "clone"}
           \/ pc = "directory" /\ Take("directory", load.n) /\ pc' = "entries"
    PROVE  HInv'
<1>0. /\ load.parts \in Nat /\ load.n \in Nat /\ load.opener \in Kinds /\ load.n \in 1 .. load.parts
      /\ pc = "open" => load.n = 1
  BY PhaseFacts DEF Parsing, PInv
<1>1. CASE pc = "open" /\ Take("fat_descriptor", 0) /\ pc' = "find"
  <2>1. \A o \in Kinds, r \in Roles, k \in Nat :
          Holds(o, r, k)' <=> Holds(o, r, k) \/ (o = load.opener /\ r = "fat_descriptor" /\ k = 0)
    BY <1>0, <1>1 DEF Holds, HoldsNow, HoldsBefore, ItemThere, WithFat, AtItem, Following
  <2> QED
    BY <1>1, <2>1, TakeStep DEF Roles
<1>2. CASE pc = "find" /\ Take("item", load.n) /\ pc' \in {"directory", "clone"}
  <2>1. \A o \in Kinds, r \in Roles, k \in Nat :
          Holds(o, r, k)' <=> Holds(o, r, k) \/ (o = load.opener /\ r = "item" /\ k = load.n)
    BY <1>0, <1>2 DEF Holds, HoldsNow, HoldsBefore, ItemThere, WithFat, AtItem, Following
  <2> QED
    BY <1>0, <1>2, <2>1, TakeStep DEF Roles
<1>3. CASE pc = "directory" /\ Take("directory", load.n) /\ pc' = "entries"
  <2>1. \A o \in Kinds, r \in Roles, k \in Nat :
          Holds(o, r, k)' <=> Holds(o, r, k) \/ (o = load.opener /\ r = "directory" /\ k = load.n)
    BY <1>0, <1>3 DEF Holds, HoldsNow, HoldsBefore, ItemThere, WithFat, AtItem, Following
  <2> QED
    BY <1>0, <1>3, <2>1, TakeStep DEF Roles
<1> QED
  BY <1>1, <1>2, <1>3

\* An item that is complete takes the place of the one before it, which is freed.
LEMMA HeldItem ==
    ASSUME PInv, HInv, failures = 0,
           \/ pc = "clone" /\ NewItem(held \cup {Object("clone", load.n)}, "ok")
           \/ pc = "entries" /\ NewItem(held \cup {Object("entries", load.n)}, "ok")
    PROVE  HInv'
<1> DEFINE last == IF pc = "clone" THEN "clone" ELSE "entries"
           item == [kind |-> load.path[load.n], data |-> "ok"]
<1>0. /\ load.parts \in Nat /\ load.n \in Nat /\ load.opener \in Kinds /\ load.n \in 1 .. load.parts
      /\ Sorted /\ HoldsInv /\ DirsBefore /\ pc \in Following /\ pc # "idle"
      /\ (pc = "clone" => load.path[load.n] = "file")
      /\ (pc = "entries" => load.path[load.n] = "dir")
  BY PhaseFacts DEF Parsing, Following, HInv
<1>1. NewItem(held \cup {Object(last, load.n)}, "ok")
  OBVIOUS
<1>2. /\ held' = (held \cup {Object(last, load.n)}) \ fat16_fat_item_free(load.n - 1)
      /\ IF load.n < load.parts
         THEN /\ pc' = IF load.path[load.n] = "dir" THEN "find" ELSE "through"
              /\ load' = [load EXCEPT !.item = item, !.n = @ + 1]
         ELSE pc' = "new" /\ load' = [load EXCEPT !.item = item]
  BY <1>1 DEF NewItem
<1> HIDE DEF item
<1>3. /\ load'.path = load.path /\ load'.opener = load.opener /\ load'.parts = load.parts
      /\ load'.file = load.file /\ load'.n = IF load.n < load.parts THEN load.n + 1 ELSE load.n
  <2>0. load \in LoadState
    BY LoadTypes
  <2>1. CASE load.n < load.parts
    <3> DEFINE l == [load EXCEPT !.item = item]
    <3>1. load' = [l EXCEPT !.n = l.n + 1]
      <4>1. load' = [load EXCEPT !.item = item, !.n = @ + 1]
        BY <1>2, <2>1
      <4> QED
        BY <4>1, Zenon
    <3>2. /\ l.path = load.path /\ l.opener = load.opener /\ l.file = load.file
          /\ l.parts = load.parts /\ l.n = load.n /\ DOMAIN l = DOMAIN load
      BY <2>0 DEF LoadState
    <3> HIDE DEF l
    <3> QED
      BY <2>0, <2>1, <3>1, <3>2 DEF LoadState
  <2>2. CASE ~(load.n < load.parts)
    <3>1. load' = [load EXCEPT !.item = item]
      BY <1>2, <2>2
    <3> QED
      BY <2>0, <2>2, <3>1 DEF LoadState
  <2> QED
    BY <2>1, <2>2
<1>4. \A o \in Kinds, r \in Roles, k \in Nat :
        <<o, r, k>> \in held' <=>
          /\ Holds(o, r, k) \/ (o = load.opener /\ r = last /\ k = load.n)
          /\ ~OfItem(o, r, k, load.n - 1)
  <2> SUFFICES ASSUME NEW o \in Kinds, NEW r \in Roles, NEW k \in Nat
               PROVE  <<o, r, k>> \in held' <=>
                        /\ Holds(o, r, k) \/ (o = load.opener /\ r = last /\ k = load.n)
                        /\ ~OfItem(o, r, k, load.n - 1)
    OBVIOUS
  <2>1. <<o, r, k>> \in held <=> Holds(o, r, k)
    BY <1>0 DEF HoldsInv
  <2>2. <<o, r, k>> = Object(last, load.n) <=> o = load.opener /\ r = last /\ k = load.n
    BY Triples DEF Object
  <2>3. <<o, r, k>> \in fat16_fat_item_free(load.n - 1) <=> OfItem(o, r, k, load.n - 1)
    BY ItemObjects
  <2> HIDE DEF last
  <2> QED
    BY <1>2, <2>1, <2>2, <2>3
<1>5. pc' = IF load.n < load.parts THEN (IF pc = "clone" THEN "through" ELSE "find") ELSE "new"
  BY <1>0, <1>2
<1>6. ASSUME NEW o \in Kinds, NEW r \in Roles, NEW k \in Nat
      PROVE  Holds(o, r, k)' <=>
               /\ Holds(o, r, k) \/ (o = load.opener /\ r = last /\ k = load.n)
               /\ ~OfItem(o, r, k, load.n - 1)
  BY <1>0, <1>3, <1>5 DEF Holds, HoldsNow, HoldsBefore, ItemThere, WithFat, AtItem, Following, OfItem,
     DirsBefore
<1>7. HoldsInv'
  <2>1. held' \subseteq Objects
    BY <1>0, <1>2 DEF HoldsInv, Objects, Object, Roles
  <2> QED
    BY <1>4, <1>6, <2>1 DEF HoldsInv
<1>8. Sorted'
  <2>1. CASE pc' = "through"
    <3>1. load'.n - 2 = load.n - 1
      BY <1>0, <1>3, <1>5, <2>1
    <3> QED
      BY <1>0, <1>3, <2>1, <3>1 DEF Sorted, DirsBefore
  <2>2. CASE pc' # "through"
    BY <1>0, <1>3, <1>5, <2>2, SortedStays
  <2> QED
    BY <2>1, <2>2
<1> QED
  BY <1>5, <1>7, <1>8 DEF HInv

\* The descriptor, and the memory for the file.
LEMMA HeldOpened ==
    ASSUME PInv, HInv, failures = 0, load'.path = load.path, load'.opener = load.opener,
           load'.parts = load.parts, load'.n = load.n, load'.file = load.file,
           \/ pc = "new" /\ held' = held \cup {Object("descriptor", 0)} /\ pc' = "image"
           \/ pc = "image" /\ held' = held \cup {Object("image", 0)} /\ pc' = "read"
    PROVE  HInv'
<1>0. load.parts \in Nat /\ load.n \in Nat /\ load.opener \in Kinds /\ Sorted /\ HoldsInv
  BY PhaseFacts DEF HInv
<1>1. CASE pc = "new" /\ held' = held \cup {Object("descriptor", 0)} /\ pc' = "image"
  <2>1. \A o \in Kinds, r \in Roles, k \in Nat :
          Holds(o, r, k)' <=> Holds(o, r, k) \/ (o = load.opener /\ r = "descriptor" /\ k = 0)
    BY <1>0, <1>1 DEF Holds, HoldsNow, HoldsBefore, ItemThere, WithFat, AtItem, Following
  <2> QED
    BY <1>0, <1>1, <2>1, TakenHolds, SortedStays DEF Roles, HInv
<1>2. CASE pc = "image" /\ held' = held \cup {Object("image", 0)} /\ pc' = "read"
  <2>1. \A o \in Kinds, r \in Roles, k \in Nat :
          Holds(o, r, k)' <=> Holds(o, r, k) \/ (o = load.opener /\ r = "image" /\ k = 0)
    BY <1>0, <1>2 DEF Holds, HoldsNow, HoldsBefore, ItemThere, WithFat, AtItem, Following
  <2>2. HoldsInv'
    BY <1>0, <1>2, <2>1, TakenHolds DEF Roles
  <2>3. Sorted'
    BY <1>0, <1>2, SortedStays
  <2> QED
    BY <1>2, <2>2, <2>3 DEF HInv
<1> QED
  BY <1>1, <1>2

\* The path, the file and the opener tell what stays.
LEMMA StaysSame ==
    ASSUME load' = load, NEW o, NEW r, NEW k
    PROVE  Stays(o, r, k)' <=> Stays(o, r, k)
  BY DEF Stays, Runs, Leads, Openers, FileInPath

\* A load that ends.
LEMMA EndsWith ==
    ASSUME pc' = "idle", load' = load, held' \subseteq Objects,
           \A o \in Kinds, r \in Roles, k \in Nat : <<o, r, k>> \in held' <=> Stays(o, r, k)
    PROVE  HInv'
<1>1. StaysInv'
  BY StaysSame DEF StaysInv
<1> QED
  BY <1>1 DEF HInv

\* In a path that leads to a file no other part is one.
LEMMA NoFileInPath ==
    ASSUME Len(load.path) \in Nat,
           \A j \in 1 .. Len(load.path) - 1 : load.path[j] = "dir", NEW k \in 1 .. Len(load.path)
    PROVE  ~FileInPath(k)
<1>1. CASE k < Len(load.path)
  BY <1>1 DEF FileInPath
<1> QED
  BY <1>1 DEF FileInPath

\* A part that names nothing.
LEMMA HeldNotFound ==
    ASSUME PInv, HInv, failures = 0, pc = "find", Here = "none", NotFound, load' = load
    PROVE  HInv'
<1>0. /\ load.parts \in Nat /\ load.n \in Nat /\ load.opener \in Kinds /\ load.n \in 1 .. load.parts
      /\ load.parts = Len(load.path) /\ Sorted /\ HoldsInv /\ DirsBefore
      /\ (load.opener = "binary" => Leads) /\ load.item.data = "ok"
  BY PhaseFacts DEF Parsing, Following, HInv
<1>1. load.path[load.n] = "none"
  BY <1>0 DEF Here
<1>2. ~Leads /\ load.opener = "elf" /\ ~Runs /\ Openers = {"elf"}
  <2>1. ~Leads
    <3>1. load.n = Len(load.path) \/ load.n \in 1 .. Len(load.path) - 1
      BY <1>0
    <3> QED
      BY <1>1, <3>1 DEF Leads
  <2> QED
    BY <1>0, <2>1 DEF Kinds, Runs, Openers
<1>3. \A k \in 1 .. Len(load.path) : ~FileInPath(k)
  <2> SUFFICES ASSUME NEW k \in 1 .. Len(load.path), FileInPath(k) PROVE FALSE
    OBVIOUS
  <2>1. load.path[k] = "file" /\ \A j \in 1 .. k - 1 : load.path[j] = "dir"
    BY DEF FileInPath
  <2>2. ~(k < load.n)
    BY <1>0, <2>1 DEF DirsBefore
  <2>3. k # load.n
    BY <1>1, <2>1
  <2>4. load.n \in 1 .. k - 1
    BY <1>0, <2>2, <2>3
  <2> QED
    BY <1>1, <2>1, <2>4
<1>4. pc' = "idle" /\ held' = (held \ fat16_fat_item_free(load.n - 1)) \ {Object("fat_descriptor", 0)}
  BY DEF NotFound, fopen_fails
<1>5. ASSUME NEW o \in Kinds, NEW r \in Roles, NEW k \in Nat
      PROVE  <<o, r, k>> \in held' <=> Stays(o, r, k)
  <2>1. <<o, r, k>> \in held <=> Holds(o, r, k)
    BY <1>0 DEF HoldsInv
  <2>2. <<o, r, k>> = Object("fat_descriptor", 0) <=> o = load.opener /\ r = "fat_descriptor" /\ k = 0
    BY Triples DEF Object
  <2>3. <<o, r, k>> \in fat16_fat_item_free(load.n - 1) <=> OfItem(o, r, k, load.n - 1)
    BY ItemObjects
  <2>4. <<o, r, k>> \in held' <=>
          /\ Holds(o, r, k) /\ ~OfItem(o, r, k, load.n - 1)
          /\ ~(o = load.opener /\ r = "fat_descriptor" /\ k = 0)
    BY <1>4, <2>1, <2>2, <2>3
  <2>5. Stays(o, r, k) <=>
          /\ Holds(o, r, k) /\ ~OfItem(o, r, k, load.n - 1)
          /\ ~(o = load.opener /\ r = "fat_descriptor" /\ k = 0)
    BY <1>0, <1>2, <1>3 DEF Stays, Holds, HoldsNow, HoldsBefore, ItemThere, WithFat, AtItem, Following, OfItem
  <2> QED
    BY <2>4, <2>5
<1>6. held' \subseteq Objects
  BY <1>0, <1>4 DEF HoldsInv
<1> QED
  BY <1>4, <1>5, <1>6, EndsWith

\* A file with parts behind it: its item stays.
LEMMA HeldThrough ==
    ASSUME PInv, HInv, failures = 0, ThroughFile
    PROVE  HInv'
<1>0. /\ load.parts \in Nat /\ load.n \in Nat /\ load.opener \in Kinds /\ load.n \in 1 .. load.parts
      /\ load.parts = Len(load.path) /\ Sorted /\ HoldsInv /\ pc = "through"
      /\ (load.opener = "binary" => Leads) /\ load.n > 1 /\ load.path[load.n - 1] = "file"
  BY PhaseFacts DEF Parsing, HInv, ThroughFile
<1>1. \A j \in 1 .. load.n - 2 : load.path[j] = "dir"
  BY <1>0 DEF Sorted
<1>2. ~Leads /\ load.opener = "elf" /\ ~Runs /\ Openers = {"elf"}
  <2>1. ~Leads
    <3>1. load.n - 1 \in 1 .. Len(load.path) - 1
      BY <1>0
    <3> QED
      BY <1>0, <3>1 DEF Leads
  <2> QED
    BY <1>0, <2>1 DEF Kinds, Runs, Openers
<1>3. \A k \in 1 .. Len(load.path) : FileInPath(k) <=> k = load.n - 1
  <2> SUFFICES ASSUME NEW k \in 1 .. Len(load.path) PROVE FileInPath(k) <=> k = load.n - 1
    OBVIOUS
  <2>1. CASE k = load.n - 1
    <3>1. k - 1 = load.n - 2 /\ k < Len(load.path)
      BY <1>0, <2>1
    <3> QED
      BY <1>0, <1>1, <2>1, <3>1 DEF FileInPath
  <2>2. CASE k < load.n - 1
    <3>1. k \in 1 .. load.n - 2
      BY <1>0, <2>2
    <3>2. load.path[k] = "dir"
      BY <1>1, <3>1
    <3> QED
      BY <1>0, <2>2, <3>2 DEF FileInPath
  <2>3. CASE k > load.n - 1
    <3>1. load.n - 1 \in 1 .. k - 1
      BY <1>0, <2>3
    <3>2. load.path[load.n - 1] # "dir"
      BY <1>0
    <3> QED
      BY <1>0, <2>3, <3>1, <3>2 DEF FileInPath
  <2> QED
    BY <1>0, <2>1, <2>2, <2>3
<1>4. pc' = "idle" /\ held' = held \ {Object("fat_descriptor", 0)} /\ load' = load
  BY DEF ThroughFile, fopen_fails
<1>5. ASSUME NEW o \in Kinds, NEW r \in Roles, NEW k \in Nat
      PROVE  <<o, r, k>> \in held' <=> Stays(o, r, k)
  <2>1. <<o, r, k>> \in held <=> Holds(o, r, k)
    BY <1>0 DEF HoldsInv
  <2>2. <<o, r, k>> = Object("fat_descriptor", 0) <=> o = load.opener /\ r = "fat_descriptor" /\ k = 0
    BY Triples DEF Object
  <2>4. <<o, r, k>> \in held' <=>
          Holds(o, r, k) /\ ~(o = load.opener /\ r = "fat_descriptor" /\ k = 0)
    BY <1>4, <2>1, <2>2
  <2>5. Stays(o, r, k) <=>
          Holds(o, r, k) /\ ~(o = load.opener /\ r = "fat_descriptor" /\ k = 0)
    BY <1>0, <1>2, <1>3 DEF Stays, Holds, HoldsNow, HoldsBefore, ItemThere, WithFat, AtItem, Following
  <2> QED
    BY <2>4, <2>5
<1>6. held' \subseteq Objects
  BY <1>0, <1>4 DEF HoldsInv
<1> QED
  BY <1>4, <1>5, <1>6, EndsWith

\* Whether an object goes with the file that is closed.
OfOpen(o, r, k) ==
    \/ OfItem(o, r, k, load.n)
    \/ o = load.opener /\ r \in {"fat_descriptor", "descriptor"} /\ k = 0

\* fclose knows the descriptor, as long as memory lasts.
LEMMA HeldClosed ==
    ASSUME MAEROS_MAX_FILE_DESCRIPTORS > 1, PInv, failures = 0, pc \in {"image", "read"},
           NEW left, NEW wrong, fclose(left, wrong)
    PROVE  /\ held' \subseteq left
           /\ \A o, r, k : <<o, r, k>> \in held' <=> <<o, r, k>> \in left /\ ~OfOpen(o, r, k)
<1>1. Known
  <2>1. load.fd = 1 /\ file_descriptors = {1}
    BY DEF PInv, DInv, MemoryLasts
  <2> QED
    BY <2>1 DEF Known
<1>2. held' = left \ (fat16_fat_item_free(load.n) \cup {Object("fat_descriptor", 0), Object("descriptor", 0)})
  BY <1>1 DEF fclose
<1>3. ASSUME NEW o, NEW r, NEW k
      PROVE  <<o, r, k>> \in held' <=> <<o, r, k>> \in left /\ ~OfOpen(o, r, k)
  <2>1. <<o, r, k>> \in fat16_fat_item_free(load.n) <=> OfItem(o, r, k, load.n)
    BY ItemObjects
  <2>2. <<o, r, k>> = Object("fat_descriptor", 0) <=> o = load.opener /\ r = "fat_descriptor" /\ k = 0
    BY Triples DEF Object
  <2>3. <<o, r, k>> = Object("descriptor", 0) <=> o = load.opener /\ r = "descriptor" /\ k = 0
    BY Triples DEF Object
  <2> QED
    BY <1>2, <2>1, <2>2, <2>3 DEF OfOpen
<1> QED
  BY <1>2, <1>3

\* A directory cannot be loaded.
LEMMA HeldDirectory ==
    ASSUME MAEROS_MAX_FILE_DESCRIPTORS > 1, PInv, HInv, failures = 0, pc = "image",
           load.item.kind = "dir", pc' = "idle", load' = load, NEW wrong, fclose(held, wrong)
    PROVE  HInv'
<1>0. /\ load.parts \in Nat /\ load.n \in Nat /\ load.opener \in Kinds /\ load.n \in 1 .. load.parts
      /\ load.parts = Len(load.path) /\ Sorted /\ HoldsInv /\ DirsBefore /\ load.n = Len(load.path)
      /\ (load.opener = "binary" => Leads) /\ load.path[load.n] = "dir"
  BY PhaseFacts DEF Parsing, HInv, Found
<1>1. ~Leads /\ load.opener = "elf" /\ ~Runs /\ Openers = {"elf"}
  BY <1>0 DEF Kinds, Runs, Openers, Leads
<1>2. \A k \in 1 .. Len(load.path) : ~FileInPath(k)
  BY <1>0, NoFileInPath DEF DirsBefore
<1>3. /\ held' \subseteq held
      /\ \A o, r, k : <<o, r, k>> \in held' <=> <<o, r, k>> \in held /\ ~OfOpen(o, r, k)
  BY HeldClosed
<1>4. \A o \in Kinds, r \in Roles, k \in Nat : Stays(o, r, k) <=> Holds(o, r, k) /\ ~OfOpen(o, r, k)
  BY <1>0, <1>1, <1>2 DEF Stays, Holds, HoldsNow, HoldsBefore, ItemThere, WithFat, AtItem, Following, OfOpen, OfItem
<1>5. \A o \in Kinds, r \in Roles, k \in Nat : <<o, r, k>> \in held' <=> Stays(o, r, k)
  BY <1>0, <1>3, <1>4 DEF HoldsInv
<1>6. held' \subseteq Objects
  BY <1>0, <1>3 DEF HoldsInv
<1> QED
  BY <1>5, <1>6, EndsWith

\* What is known when a file is read, as long as memory lasts.
LEMMA ReadFacts ==
    ASSUME PInv, HInv, failures = 0, pc \in {"read", "loaded", "running"}
    PROVE  /\ load.parts \in Nat /\ load.n \in Nat /\ load.opener \in Kinds /\ load.n \in 1 .. load.parts
           /\ load.parts = Len(load.path) /\ Sorted /\ HoldsInv /\ load.n = Len(load.path)
           /\ load.path[load.n] = "file" /\ Leads /\ load.item.data = "ok"
           /\ \A k \in 1 .. Len(load.path) : ~FileInPath(k)
<1>0. /\ load.parts \in Nat /\ load.n \in Nat /\ load.opener \in Kinds /\ load.n \in 1 .. load.parts
      /\ load.parts = Len(load.path) /\ Sorted /\ HoldsInv /\ DirsBefore /\ load.n = Len(load.path)
      /\ load.item.kind = "file" /\ load.path[load.n] = "file" /\ load.item.data = "ok"
  BY PhaseFacts DEF Parsing, HInv, Found
<1>1. Leads
  BY <1>0, FoundLeads DEF Found
<1>2. \A k \in 1 .. Len(load.path) : ~FileInPath(k)
  BY <1>0, NoFileInPath DEF DirsBefore
<1> QED
  BY <1>0, <1>1, <1>2

\* A file that cannot be read: only elf_load comes to it.
LEMMA HeldUnread ==
    ASSUME MAEROS_MAX_FILE_DESCRIPTORS > 1, PInv, HInv, failures = 0, ReadFails
    PROVE  HInv'
<1>0. /\ load.parts \in Nat /\ load.n \in Nat /\ load.opener \in Kinds /\ load.n \in 1 .. load.parts
      /\ load.parts = Len(load.path) /\ Sorted /\ HoldsInv /\ load.n = Len(load.path)
      /\ load.path[load.n] = "file" /\ Leads /\ load.item.data = "ok" /\ pc = "read"
      /\ \A k \in 1 .. Len(load.path) : ~FileInPath(k)
  BY ReadFacts DEF ReadFails
<1>1. load.file.readable = FALSE
  BY <1>0 DEF ReadFails, Reads
<1>2. load.opener = "elf" /\ ~Runs /\ Openers = {"elf"}
  BY <1>0, <1>1 DEF Kinds, Runs, Openers, Sorted
<1>3. pc' = "idle" /\ load' = load /\ fclose(held, {})
  BY <1>2 DEF ReadFails
<1>4. /\ held' \subseteq held
      /\ \A o, r, k : <<o, r, k>> \in held' <=> <<o, r, k>> \in held /\ ~OfOpen(o, r, k)
  BY <1>0, <1>3, HeldClosed
<1>5. \A o \in Kinds, r \in Roles, k \in Nat : Stays(o, r, k) <=> Holds(o, r, k) /\ ~OfOpen(o, r, k)
  BY <1>0, <1>1, <1>2 DEF Stays, Holds, HoldsNow, HoldsBefore, ItemThere, WithFat, AtItem, Following, OfOpen, OfItem
<1>6. \A o \in Kinds, r \in Roles, k \in Nat : <<o, r, k>> \in held' <=> Stays(o, r, k)
  BY <1>0, <1>4, <1>5 DEF HoldsInv
<1>7. held' \subseteq Objects
  BY <1>0, <1>4 DEF HoldsInv
<1> QED
  BY <1>3, <1>6, <1>7, EndsWith

\* A file that was read: it is loaded, or opened again as a raw binary.
LEMMA HeldRead ==
    ASSUME MAEROS_MAX_FILE_DESCRIPTORS > 1, PInv, HInv, failures = 0, ReadSucceeds
    PROVE  HInv'
<1>0. /\ load.parts \in Nat /\ load.n \in Nat /\ load.opener \in Kinds /\ load.n \in 1 .. load.parts
      /\ load.parts = Len(load.path) /\ Sorted /\ HoldsInv /\ load.n = Len(load.path)
      /\ load.path[load.n] = "file" /\ Leads /\ load.item.data = "ok" /\ pc = "read"
  BY ReadFacts DEF ReadSucceeds
<1>1. load.file.readable = TRUE
  BY <1>0 DEF ReadSucceeds, Reads
<1>2. /\ held' \subseteq held
      /\ \A o, r, k : <<o, r, k>> \in held' <=> <<o, r, k>> \in held /\ ~OfOpen(o, r, k)
  BY <1>0, HeldClosed DEF ReadSucceeds
<1>3. held' \subseteq Objects
  BY <1>0, <1>2 DEF HoldsInv
<1>4. IsElf <=> elf_validate_loaded(load.file)
  BY <1>0 DEF IsElf
<1>5. CASE load.opener = "binary" \/ IsElf
  <2>1. pc' = "loaded" /\ load' = load
    BY <1>5 DEF ReadSucceeds
  <2>2. \A o \in Kinds, r \in Roles, k \in Nat : Holds(o, r, k)' <=> Holds(o, r, k) /\ ~OfOpen(o, r, k)
    BY <1>0, <2>1 DEF Holds, HoldsNow, HoldsBefore, ItemThere, WithFat, AtItem, Following, OfOpen, OfItem
  <2>3. HoldsInv'
    BY <1>0, <1>2, <1>3, <2>2 DEF HoldsInv
  <2>4. Sorted'
    BY <1>0, <1>1, <1>4, <1>5, <2>1 DEF Sorted, Kinds
  <2> QED
    BY <2>1, <2>3, <2>4 DEF HInv
<1>6. CASE load.opener = "elf" /\ ~IsElf
  <2>1. pc' = "root" /\ load' = NewLoad(load.path, load.file, "binary")
    BY <1>6 DEF ReadSucceeds
  <2>2. /\ load'.path = load.path /\ load'.file = load.file /\ load'.opener = "binary"
        /\ load'.parts = 0
    BY <2>1 DEF NewLoad
  <2>3. \A o \in Kinds, r \in Roles, k \in Nat : Holds(o, r, k)' <=> Holds(o, r, k) /\ ~OfOpen(o, r, k)
    BY <1>0, <1>6, <2>1, <2>2 DEF Holds, HoldsNow, HoldsBefore, ItemThere, WithFat, AtItem, Following,
       OfOpen, OfItem, Roles, Kinds
  <2>4. HoldsInv'
    BY <1>0, <1>2, <1>3, <2>3 DEF HoldsInv
  <2>5. Sorted'
    BY <1>1, <1>4, <1>6, <2>1, <2>2 DEF Sorted
  <2> QED
    BY <2>1, <2>4, <2>5 DEF HInv
<1> QED
  BY <1>0, <1>5, <1>6 DEF Kinds

\* Whether the program is mapped.
LEMMA WhenMapped ==
    ASSUME PInv, HInv, failures = 0, pc = "loaded"
    PROVE  Mapping.ok <=> load.opener = "binary" \/ Runs
<1>0. /\ load.opener \in Kinds /\ Sorted /\ HoldsInv /\ Leads
  BY ReadFacts
<1>1. CASE load.opener = "binary"
  <2>1. Mapping = process_map_memory("binary", Image, load.file.size, Image, load.file.phdrs, StackAddress)
    BY <1>1, MappingIs, LoadedAt
  <2>2. Mapping.ok
    BY <2>1, LoadedAt, MapsBinary, StackAssumption
  <2> QED
    BY <1>1, <2>2
<1>2. CASE load.opener = "elf"
  <2>1. Mapping = process_map_memory("elf", ptr, 0, Image, load.file.phdrs, StackAddress)
    BY <1>2, MappingIs
  <2>2. Mapping.ok <=> \A i \in 1 .. Len(load.file.phdrs) : ~HeaderRefused(Image, load.file.phdrs[i])
    BY <2>1, LoadedAt, MapsElf, StackAssumption
  <2>3. Image = ImageAddress
    BY DEF PInv, MemoryLasts, Image
  <2>4. Runs <=> \A i \in 1 .. Len(load.file.phdrs) : ~HeaderRefused(Image, load.file.phdrs[i])
    BY <1>0, <1>2, <2>3 DEF Sorted, Runs
  <2> QED
    BY <1>2, <2>2, <2>4
<1> QED
  BY <1>0, <1>1, <1>2 DEF Kinds

\* The mapping: a refused one leaves all that was loaded.
LEMMA HeldMapped ==
    ASSUME PInv, HInv, failures = 0, MapProgram
    PROVE  HInv'
<1>0. /\ load.parts \in Nat /\ load.n \in Nat /\ load.opener \in Kinds /\ load.n \in 1 .. load.parts
      /\ load.parts = Len(load.path) /\ Sorted /\ HoldsInv /\ Leads /\ pc = "loaded"
      /\ \A k \in 1 .. Len(load.path) : ~FileInPath(k)
  BY ReadFacts DEF MapProgram
<1>1. load' = load /\ held' = held /\ pc' = IF Mapping.ok THEN "running" ELSE "idle"
  BY DEF MapProgram
<1>2. Mapping.ok <=> load.opener = "binary" \/ Runs
  BY <1>0, WhenMapped
<1>3. CASE Mapping.ok
  <2>1. \A o \in Kinds, r \in Roles, k \in Nat : Holds(o, r, k)' <=> Holds(o, r, k)
    BY <1>0, <1>1, <1>3 DEF Holds, HoldsNow, HoldsBefore, ItemThere, WithFat, AtItem, Following
  <2>2. Runs' <=> Runs
    BY <1>1 DEF Runs, Leads
  <2>3. Sorted'
    BY <1>0, <1>1, <1>2, <1>3, <2>2 DEF Sorted
  <2> QED
    BY <1>0, <1>1, <1>3, <2>1, <2>3, SameHolds DEF HInv
<1>4. CASE ~Mapping.ok
  <2>1. load.opener = "elf" /\ ~Runs /\ Openers = {"elf"}
    BY <1>0, <1>2, <1>4 DEF Kinds, Openers
  <2>2. \A o \in Kinds, r \in Roles, k \in Nat : Stays(o, r, k) <=> Holds(o, r, k)
    BY <1>0, <2>1 DEF Stays, Holds, HoldsNow, HoldsBefore, ItemThere, WithFat, AtItem, Following
  <2> QED
    BY <1>0, <1>1, <1>4, <2>2, EndsWith DEF HoldsInv
<1> QED
  BY <1>3, <1>4

\* The process ends.
LEMMA HeldFreed ==
    ASSUME PInv, HInv, failures = 0, process_free_program_data
    PROVE  HInv'
<1>0. /\ load.parts \in Nat /\ load.n \in Nat /\ load.opener \in Kinds /\ load.n \in 1 .. load.parts
      /\ load.parts = Len(load.path) /\ Sorted /\ HoldsInv /\ Leads /\ pc = "running"
      /\ \A k \in 1 .. Len(load.path) : ~FileInPath(k)
  BY ReadFacts DEF process_free_program_data
<1>1. load' = load /\ pc' = "idle"
  BY DEF process_free_program_data
<1>2. load.opener = "elf" => <<"elf", "elf_file", 0>> \in held
  BY <1>0 DEF HoldsInv, Holds, Roles, Kinds
<1>3. held' = held \ {Object("image", 0), Object("elf_file", 0)}
  BY <1>2 DEF process_free_program_data
<1>4. Runs <=> load.opener = "elf"
  BY <1>0 DEF Sorted, Runs, Kinds
<1>5. ASSUME NEW o \in Kinds, NEW r \in Roles, NEW k \in Nat
      PROVE  <<o, r, k>> \in held' <=> Stays(o, r, k)
  <2>1. <<o, r, k>> \in held <=> Holds(o, r, k)
    BY <1>0 DEF HoldsInv
  <2>2. <<o, r, k>> = Object("image", 0) <=> o = load.opener /\ r = "image" /\ k = 0
    BY Triples DEF Object
  <2>3. <<o, r, k>> = Object("elf_file", 0) <=> o = load.opener /\ r = "elf_file" /\ k = 0
    BY Triples DEF Object
  <2>4. <<o, r, k>> \in held' <=>
          Holds(o, r, k) /\ ~(o = load.opener /\ r \in {"image", "elf_file"} /\ k = 0)
    BY <1>3, <2>1, <2>2, <2>3
  <2>5. Stays(o, r, k) <=>
          Holds(o, r, k) /\ ~(o = load.opener /\ r \in {"image", "elf_file"} /\ k = 0)
    BY <1>0, <1>4 DEF Stays, Holds, HoldsNow, HoldsBefore, ItemThere, WithFat, AtItem, Following,
       Openers, Kinds, Roles
  <2> QED
    BY <2>4, <2>5
<1>6. held' \subseteq Objects
  BY <1>0, <1>3 DEF HoldsInv
<1> QED
  BY <1>1, <1>5, <1>6, EndsWith

\* A load begins.
LEMMA HeldStart ==
    ASSUME NEW path \in Paths, NEW file \in Programs, elf_load(path, file)
    PROVE  HInv'
<1>1. pc' = "root" /\ load' = NewLoad(path, file, "elf")
      /\ (failures' = 0 => held' = {<<"elf", "elf_file", 0>>})
  BY DEF elf_load
<1>2. load'.opener = "elf" /\ load'.parts = 0
  BY <1>1 DEF NewLoad
<1>3. Sorted'
  BY <1>1, <1>2 DEF Sorted
<1>4. ASSUME held' = {<<"elf", "elf_file", 0>>} PROVE HoldsInv'
  <2>1. \A o \in Kinds, r \in Roles, k \in Nat :
          <<o, r, k>> \in held' <=> o = "elf" /\ r = "elf_file" /\ k = 0
    BY <1>4, Triples
  <2>2. \A o \in Kinds, r \in Roles, k \in Nat : Holds(o, r, k)' <=> o = "elf" /\ r = "elf_file" /\ k = 0
    BY <1>1, <1>2 DEF Holds, HoldsNow, HoldsBefore, ItemThere, WithFat, AtItem, Following
  <2>3. held' \subseteq Objects
    BY <1>4 DEF Objects, Kinds, Roles
  <2> QED
    BY <2>1, <2>2, <2>3 DEF HoldsInv
<1> QED
  BY <1>1, <1>3, <1>4 DEF HInv

\* A step with memory for all it asks for.
LEMMA HInvStep ==
    ASSUME MAEROS_MAX_FILE_DESCRIPTORS > 1
    PROVE  PInv /\ HInv /\ [Next]_vars => HInv'
<1> SUFFICES ASSUME PInv, HInv, [Next]_vars PROVE HInv'
  OBVIOUS
<1>0. failures \in Nat
  BY DEF PInv
<1>1. CASE RunsOut
  BY <1>0, <1>1, RunsOutFacts, HeldUnknown
<1>2. ASSUME NEW path \in Paths, NEW file \in Programs, elf_load(path, file) PROVE HInv'
  BY <1>2, HeldStart
<1> SUFFICES ASSUME ~RunsOut, ~\E path \in Paths, file \in Programs : elf_load(path, file) PROVE HInv'
  BY <1>1, <1>2
<1>3. CASE UNCHANGED vars
  <2>1. \A o \in Kinds, r \in Roles, k \in Nat : Holds(o, r, k)' <=> Holds(o, r, k)
    BY <1>3 DEF vars, Holds, HoldsNow, HoldsBefore, ItemThere
  <2>2. \A o \in Kinds, r \in Roles, k \in Nat : Stays(o, r, k)' <=> Stays(o, r, k)
    BY <1>3, StaysSame DEF vars
  <2>3. Sorted => Sorted'
    BY <1>3 DEF vars, Sorted, Runs, Leads
  <2>4. (HoldsInv => HoldsInv') /\ (StaysInv => StaysInv')
    BY <1>3, <2>1, <2>2 DEF vars, HoldsInv, StaysInv
  <2> QED
    BY <1>3, <2>3, <2>4 DEF vars, HInv
<1> SUFFICES ASSUME Next PROVE HInv'
  BY <1>3
<1>4. CASE failures' # 0
  BY <1>4 DEF HInv
<1> SUFFICES ASSUME failures' = 0 PROVE HInv'
  BY <1>4
<1>5. CASE pathparser_create_root \/ pathparser_get_path_part
  BY <1>5, HeldParsing DEF pathparser_create_root, pathparser_get_path_part, Take
<1>6. CASE EndOfPath
  BY <1>6, HeldParsed DEF EndOfPath
<1>7. CASE pathparser_parse_path_part
  BY <1>7, HeldPart DEF pathparser_parse_path_part, Take
<1>8. CASE fat16_open
  BY <1>8, HeldFound DEF fat16_open, Take
<1>9. CASE fat16_find_item_in_directory
  BY <1>9, HeldFound, HeldNotFound DEF fat16_find_item_in_directory, Take
<1>10. CASE ThroughFile
  BY <1>10, HeldThrough DEF ThroughFile
<1>11. CASE fat16_clone_directory_item
  BY <1>11, HeldItem DEF fat16_clone_directory_item
<1>12. CASE fat16_load_fat_directory
  BY <1>12, HeldItem, HeldFound DEF fat16_load_fat_directory, Take
<1>13. CASE file_new_descriptor
  <2>1. pc = "new" /\ file_descriptors = {} /\ load \in LoadState
    BY <1>13, LoadTypes DEF file_new_descriptor, PInv, DInv
  <2>2. FreeDescriptors # {}
    BY <2>1, DescriptorsAssumption DEF FreeDescriptors, Descriptors
  <2> DEFINE first == CHOOSE d \in FreeDescriptors : \A e \in FreeDescriptors : d <= e
  <2>3. load' = [load EXCEPT !.fd = first] /\ pc' = "image" /\ Take("descriptor", 0)
    BY <1>13, <2>2, Zenon DEF file_new_descriptor
  <2> HIDE DEF first
  <2>4. /\ load'.path = load.path /\ load'.opener = load.opener
        /\ load'.parts = load.parts /\ load'.n = load.n /\ load'.file = load.file
    BY <2>1, <2>3 DEF LoadState
  <2> QED
    BY <2>1, <2>3, <2>4, HeldOpened DEF Take
<1>14. CASE fstat_and_kzalloc
  <2>1. pc = "image" /\ load' = load
    BY <1>14 DEF fstat_and_kzalloc
  <2>2. CASE ~Known \/ load.item.kind = "dir"
    <3>1. failures = 0
      BY <1>14, <2>2 DEF fstat_and_kzalloc
    <3>2. Known
      BY <2>1, <3>1 DEF Known, PInv, DInv, MemoryLasts
    <3>3. pc' = "idle" /\ \E wrong : fclose(held, wrong)
      BY <1>14, <2>2, Zenon DEF fstat_and_kzalloc
    <3> QED
      BY <2>1, <2>2, <3>1, <3>2, <3>3, HeldDirectory
  <2>3. CASE ~(~Known \/ load.item.kind = "dir")
    <3>1. Take("image", 0) /\ pc' = "read"
      BY <1>14, <2>3, Zenon DEF fstat_and_kzalloc
    <3> QED
      BY <2>1, <3>1, HeldOpened DEF Take
  <2> QED
    BY <2>2, <2>3
<1>15. CASE ReadFails
  BY <1>15, HeldUnread DEF ReadFails
<1>16. CASE ReadSucceeds
  BY <1>16, HeldRead DEF ReadSucceeds
<1>17. CASE MapProgram
  BY <1>17, HeldMapped DEF MapProgram
<1>18. CASE process_free_program_data
  BY <1>18, HeldFreed DEF process_free_program_data
<1> QED
  BY <1>5, <1>6, <1>7, <1>8, <1>9, <1>10, <1>11, <1>12, <1>13, <1>14, <1>15, <1>16, <1>17, <1>18 DEF Next

\* What LossesKnown names is what stays.
LEMMA LossesAre ==
    ASSUME load.opener \in Kinds, Len(load.path) \in Nat
    PROVE  /\ Losses \subseteq Objects
           /\ \A o \in Kinds, r \in Roles, k \in Nat : <<o, r, k>> \in Losses <=> Stays(o, r, k)
<1> DEFINE A == UNION {PathObjects(o) : o \in Openers}
           B == {<<"elf", r, k>> : r \in {"item", "clone"}, k \in {j \in 1 .. Len(load.path) : FileInPath(j)}}
           D == {<<"elf", "image", 0>> : x \in {y \in {0} : Leads}}
           C == IF Runs THEN {} ELSE {<<"elf", "elf_file", 0>>} \cup D
<1>0. Openers \subseteq Kinds
  BY DEF Openers, Kinds
<1>1. A \subseteq Objects
  BY <1>0 DEF PathObjects, Objects, Roles
<1>2. B \subseteq Objects
  BY DEF Objects, Roles, Kinds
<1>3. C \subseteq Objects
  BY DEF Objects, Roles, Kinds
<1>4. ASSUME NEW o, NEW r, NEW k
      PROVE  <<o, r, k>> \in A <=> /\ o \in Openers
                                   /\ \/ r = "root" /\ k = 0
                                      \/ r \in {"string", "part"} /\ k \in 1 .. Len(load.path)
  <2>1. ASSUME NEW p
        PROVE  <<o, r, k>> \in PathObjects(p) <=>
                 /\ o = p
                 /\ \/ r = "root" /\ k = 0
                    \/ r \in {"string", "part"} /\ k \in 1 .. Len(load.path)
    <3>1. <<o, r, k>> \in PathObjects(p) <=>
            \/ <<o, r, k>> = <<p, "root", 0>>
            \/ \E s \in {"string", "part"}, j \in 1 .. Len(load.path) : <<o, r, k>> = <<p, s, j>>
      BY DEF PathObjects
    <3>2. <<o, r, k>> = <<p, "root", 0>> <=> o = p /\ r = "root" /\ k = 0
      BY Triples
    <3>3. (\E s \in {"string", "part"}, j \in 1 .. Len(load.path) : <<o, r, k>> = <<p, s, j>>) <=>
            o = p /\ r \in {"string", "part"} /\ k \in 1 .. Len(load.path)
      <4>1. \A s, j : <<o, r, k>> = <<p, s, j>> <=> o = p /\ r = s /\ k = j
        BY Triples
      <4> QED
        BY <4>1, Zenon
    <3> QED
      BY <3>1, <3>2, <3>3
  <2>2. <<o, r, k>> \in A <=> \E p \in Openers : <<o, r, k>> \in PathObjects(p)
    BY Zenon
  <2> HIDE DEF A
  <2> QED
    BY <2>1, <2>2, Zenon
<1>5. ASSUME NEW o, NEW r, NEW k
      PROVE  <<o, r, k>> \in B <=>
               o = "elf" /\ r \in {"item", "clone"} /\ k \in 1 .. Len(load.path) /\ FileInPath(k)
  <2>1. <<o, r, k>> \in B <=> \E s \in {"item", "clone"}, j \in 1 .. Len(load.path) :
                                FileInPath(j) /\ <<o, r, k>> = <<"elf", s, j>>
    OBVIOUS
  <2> QED
    BY <2>1, Triples
<1>6. ASSUME NEW o, NEW r, NEW k
      PROVE  <<o, r, k>> \in C <=>
               /\ ~Runs /\ o = "elf" /\ k = 0
               /\ r = "elf_file" \/ (r = "image" /\ Leads)
  <2>1. <<o, r, k>> \in D <=> Leads /\ <<o, r, k>> = <<"elf", "image", 0>>
    OBVIOUS
  <2>2. <<o, r, k>> = <<"elf", "image", 0>> <=> o = "elf" /\ r = "image" /\ k = 0
    BY Triples
  <2>3. <<o, r, k>> = <<"elf", "elf_file", 0>> <=> o = "elf" /\ r = "elf_file" /\ k = 0
    BY Triples
  <2> HIDE DEF D
  <2>4. <<o, r, k>> \in C <=> ~Runs /\ (<<o, r, k>> = <<"elf", "elf_file", 0>> \/ <<o, r, k>> \in D)
    OBVIOUS
  <2> HIDE DEF C
  <2> QED
    BY <2>1, <2>2, <2>3, <2>4, Zenon
<1>7. \A x : x \in Losses <=> x \in A \/ x \in B \/ x \in C
  BY DEF Losses
<1> HIDE DEF A, B, C
<1>8. ASSUME NEW o \in Kinds, NEW r \in Roles, NEW k \in Nat
      PROVE  <<o, r, k>> \in (A \cup B) \cup C <=> Stays(o, r, k)
  <2>1. <<o, r, k>> \in (A \cup B) \cup C <=> <<o, r, k>> \in A \/ <<o, r, k>> \in B \/ <<o, r, k>> \in C
    OBVIOUS
  <2>2. <<o, r, k>> \in A <=> /\ o \in Openers
                              /\ \/ r = "root" /\ k = 0
                                 \/ r \in {"string", "part"} /\ k \in 1 .. Len(load.path)
    BY <1>4
  <2>3. <<o, r, k>> \in B <=>
          o = "elf" /\ r \in {"item", "clone"} /\ k \in 1 .. Len(load.path) /\ FileInPath(k)
    BY <1>5
  <2>4. <<o, r, k>> \in C <=>
          /\ ~Runs /\ o = "elf" /\ k = 0
          /\ r = "elf_file" \/ (r = "image" /\ Leads)
    BY <1>6
  <2> QED
    BY <2>1, <2>2, <2>3, <2>4 DEF Stays
<1> QED
  BY <1>1, <1>2, <1>3, <1>7, <1>8

\* Two sets of objects with the same members are the same.
LEMMA SameObjects ==
    ASSUME NEW X, NEW Y, X \subseteq Objects, Y \subseteq Objects,
           \A o \in Kinds, r \in Roles, k \in Nat : <<o, r, k>> \in X <=> <<o, r, k>> \in Y
    PROVE  X = Y
<1>1. ASSUME NEW x \in Objects PROVE x \in X <=> x \in Y
  <2>1. PICK o \in Kinds, r \in Roles, k \in Nat : x = <<o, r, k>>
    BY DEF Objects
  <2> QED
    BY <2>1
<1> QED
  BY <1>1

\* For every path, whatever its parts name, and every file: when no allocation fails, what
\* stays of a load that is over is exactly what LossesKnown names, on every way through
\* the parser, FAT16, the descriptor table, the second fopen and a refused mapping.
THEOREM LossesAreKnown ==
    ASSUME MAEROS_MAX_FILE_DESCRIPTORS > 1
    PROVE  Spec => []LossesKnown
<1>1. Init => PInv /\ HInv
  BY PInvInit DEF Init, HInv
<1>2. PInv /\ HInv /\ [Next]_vars => PInv' /\ HInv'
  BY PInvStep, HInvStep
<1>3. PInv /\ HInv => LossesKnown
  <2> SUFFICES ASSUME PInv, HInv, pc = "idle", failures = 0, held # {} PROVE LossesKnown
    BY DEF LossesKnown
  <2>1. load.opener \in Kinds /\ Len(load.path) \in Nat
    BY LoadTypes DEF LoadState, Kinds
  <2>2. StaysInv
    BY DEF HInv
  <2>3. held = Losses
    BY <2>1, <2>2, LossesAre, SameObjects DEF StaysInv
  <2> QED
    BY <2>3 DEF LossesKnown
<1> QED
  BY <1>1, <1>2, <1>3, PTL DEF Spec
=============================================================================
