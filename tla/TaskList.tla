------------------------------ MODULE TaskList ------------------------------
(***************************************************************************)
(* The task list of the scheduler (src/task/task.c): a doubly linked list  *)
(* of heap-allocated task structures with a head, a tail and the current   *)
(* task.                                                                   *)
(*                                                                         *)
(* A list state s is a record: head, tail and current are pointers; cell   *)
(* maps every address a task structure can have to the contents of that    *)
(* memory; alloc is the set of addresses that hold an allocated task.      *)
(* kfree does not clear memory, so the fields of a freed task stay         *)
(* readable until the address is handed out again.                         *)
(*                                                                         *)
(* stale is a history variable: a write has gone through a pointer to a    *)
(* freed task, or a task was taken out through a prev that did not lead to *)
(* its predecessor.  task_list_remove leaves the prev of the task behind   *)
(* the one that goes as it was, so this happens when a task leaves whose   *)
(* predecessor has left before it.                                         *)
(***************************************************************************)
EXTENDS FiniteSets, Naturals, Sequences

CONSTANTS
    Cells,   \* addresses of task structures
    Slots,   \* indexes of the process table
    NULL

ASSUME CellsAssumption == NULL \notin Cells /\ NULL \notin Slots
ASSUME SlotsAssumption == Slots \subseteq Nat
ASSUME MemoryAssumption == IsFiniteSet(Cells)

EmptyCell == [next |-> NULL, prev |-> NULL, process |-> NULL]

EmptyList == [head |-> NULL, tail |-> NULL, current |-> NULL,
              cell |-> [a \in Cells |-> EmptyCell], alloc |-> {}, stale |-> FALSE]

\* task->next = v
StoreNext(s, task, v) ==
    IF task \in Cells
    THEN [s EXCEPT !.cell[task].next = v, !.stale = @ \/ task \notin s.alloc]
    ELSE [s EXCEPT !.stale = TRUE]

-----------------------------------------------------------------------------
\* A zeroed structure at the address that kzalloc returned, appended to the list;
\* the first task of all becomes the current one.
task_new(s, task, process) ==
    LET new == [s EXCEPT !.cell[task] = [EmptyCell EXCEPT !.process = process],
                         !.alloc = @ \cup {task}]
    IN  IF s.head = NULL
        THEN [new EXCEPT !.head = task, !.tail = task, !.current = task]
        ELSE [StoreNext(new, s.tail, task) EXCEPT !.cell[task].prev = s.tail, !.tail = task]

\* Mutant: at the end of the list the current task goes on.
TaskGetNextNoWrap(s) ==
    IF s.cell[s.current].next = NULL THEN s.current ELSE s.cell[s.current].next

\* The next task, the head behind the last one.
task_get_next(s) ==
    IF s.cell[s.current].next = NULL THEN s.head ELSE s.cell[s.current].next

\* Mutant: the predecessor keeps its link to the task that leaves.
ListRemoveNoUnlink(s, task) ==
    LET s1 == IF task = s.head THEN [s EXCEPT !.head = s.cell[task].next] ELSE s
        s2 == IF task = s.tail THEN [s1 EXCEPT !.tail = s1.cell[task].prev] ELSE s1
    IN  IF task = s.current THEN [s2 EXCEPT !.current = task_get_next(s2)] ELSE s2

\* The prev of task is a live task in front of it, if it is anything.
PrevRight(s, task) ==
    LET prev == s.cell[task].prev
    IN  prev # NULL => prev \in s.alloc /\ s.cell[prev].next = task

\* task->prev->next = task->next
UnlinkNext(s, task) ==
    IF s.cell[task].prev = NULL THEN s
    ELSE [StoreNext(s, s.cell[task].prev, s.cell[task].next) EXCEPT
            !.stale = @ \/ ~PrevRight(s, task)]

\* Mutant: the tail stays with the task that leaves.
ListRemoveKeepsTail(s, task) ==
    LET s1 == UnlinkNext(s, task)
        s2 == IF task = s.head THEN [s1 EXCEPT !.head = s1.cell[task].next] ELSE s1
    IN  IF task = s.current THEN [s2 EXCEPT !.current = task_get_next(s2)] ELSE s2

\* Mutant: the current task becomes the head whenever the one that leaves was current.
ListRemoveToHead(s, task) ==
    LET s1 == UnlinkNext(s, task)
        s2 == IF task = s.head THEN [s1 EXCEPT !.head = s1.cell[task].next] ELSE s1
        s3 == IF task = s.tail THEN [s2 EXCEPT !.tail = s2.cell[task].prev] ELSE s2
    IN  IF task = s.current THEN [s3 EXCEPT !.current = s3.head] ELSE s3

\* Unlinks task.  The prev pointer of its successor is NOT updated.
task_list_remove(s, task) ==
    LET s1 == UnlinkNext(s, task)
        s2 == IF task = s.head THEN [s1 EXCEPT !.head = s1.cell[task].next] ELSE s1
        s3 == IF task = s.tail THEN [s2 EXCEPT !.tail = s2.cell[task].prev] ELSE s2
    IN  IF task = s.current THEN [s3 EXCEPT !.current = task_get_next(s3)] ELSE s3

\* The structure is given back to the heap; its contents stay.
task_free(s, task) ==
    LET s1 == task_list_remove(s, task)
    IN  [s1 EXCEPT !.alloc = @ \ {task}]

-----------------------------------------------------------------------------
\* The tasks met from the head along the next pointers, each once.
Chain(s) ==
    LET walk[n \in 0 .. Cardinality(Cells)] ==
          IF n = 0
          THEN IF s.head = NULL THEN <<>> ELSE <<s.head>>
          ELSE LET q == walk[n - 1]
                   x == IF q = <<>> THEN NULL ELSE s.cell[q[Len(q)]].next
               IN  IF x = NULL \/ \E k \in 1 .. Len(q) : q[k] = x THEN q ELSE Append(q, x)
    IN  walk[Cardinality(Cells)]

\* The list from head to tail is q and holds every live task.  Only the head may have
\* no prev; another prev leads to the predecessor or is left over from one that has gone,
\* in which case it does not lead to any task in front.
InOrder(s, q) ==
    /\ s.alloc = {q[k] : k \in 1 .. Len(q)}
    /\ s.head = IF q = <<>> THEN NULL ELSE q[1]
    /\ s.tail = IF q = <<>> THEN NULL ELSE q[Len(q)]
    /\ \A k \in 1 .. Len(q) :
         /\ s.cell[q[k]].next = IF k = Len(q) THEN NULL ELSE q[k + 1]
         /\ k > 1 => s.cell[q[k]].prev # NULL
         /\ \A j \in 1 .. k : s.cell[q[k]].prev = q[j] => j = k - 1
=============================================================================
