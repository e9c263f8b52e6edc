-------------------------- MODULE SchedulerProofs --------------------------
(***************************************************************************)
(* Proofs about Scheduler, for any number of slots and task structures; and *)
(* about Context: for any register values too, what a task sees of the     *)
(* processor is its own.  Loads and exits come in any order.               *)
(***************************************************************************)
EXTENDS Context, Induction, FiniteSetTheorems, SequenceTheorems

Pointers == Cells \cup {NULL}

TaskStruct == [next : Pointers, prev : Pointers, process : Slots \cup {NULL}]

ListState == [head : Pointers, tail : Pointers, current : Pointers,
              cell : [Cells -> TaskStruct], alloc : SUBSET Cells, stale : BOOLEAN]

-----------------------------------------------------------------------------
\* Storing a pointer in a cell, and what d is after that.
NextIn(c, task, v, d) ==
    /\ d \in [Cells -> TaskStruct]
    /\ \A t \in Cells :
         /\ d[t].next = IF t = task THEN v ELSE c[t].next
         /\ d[t].prev = c[t].prev
         /\ d[t].process = c[t].process

PrevIn(c, task, v, d) ==
    /\ d \in [Cells -> TaskStruct]
    /\ \A t \in Cells :
         /\ d[t].prev = IF t = task THEN v ELSE c[t].prev
         /\ d[t].next = c[t].next
         /\ d[t].process = c[t].process

\* The two stores.
LEMMA CellUpdate ==
    ASSUME NEW c \in [Cells -> TaskStruct], NEW task \in Cells, NEW v \in Pointers
    PROVE  /\ NextIn(c, task, v, [c EXCEPT ![task].next = v])
           /\ PrevIn(c, task, v, [c EXCEPT ![task].prev = v])
  BY DEF TaskStruct, NextIn, PrevIn

\* r is s after task->next = v: that pointer has changed, and nothing else but stale.
NextStored(s, task, v, r) ==
    /\ r \in ListState
    /\ r.head = s.head /\ r.tail = s.tail /\ r.current = s.current
    /\ r.alloc = s.alloc
    /\ r.stale = (s.stale \/ task \notin s.alloc)
    /\ \A t \in Cells :
         /\ r.cell[t].next = IF t = task THEN v ELSE s.cell[t].next
         /\ r.cell[t].prev = s.cell[t].prev
         /\ r.cell[t].process = s.cell[t].process

\* What StoreNext does.
LEMMA StoreNextFacts ==
    ASSUME NEW s \in ListState, NEW task \in Pointers, NEW v \in Pointers
    PROVE  NextStored(s, task, v, StoreNext(s, task, v))
<1> DEFINE r == StoreNext(s, task, v)
<1> SUFFICES NextStored(s, task, v, r)
  OBVIOUS
<1> DEFINE a == [s EXCEPT !.cell[task].next = v]
           b == [s.cell EXCEPT ![task].next = v]
<1>1. CASE task \in Cells
  <2>1. r = [a EXCEPT !.stale = s.stale \/ task \notin s.alloc]
    BY <1>1, Zenon DEF StoreNext, ListState
  <2> HIDE DEF r
  <2>2. /\ a = [s EXCEPT !.cell = b]
    BY <1>1 DEF ListState, TaskStruct
  <2>3. NextIn(s.cell, task, v, b)
    <3>1. s.cell \in [Cells -> TaskStruct]
      BY DEF ListState
    <3> QED
      BY <1>1, <3>1, CellUpdate
  <2> HIDE DEF a, b
  <2>4. a \in ListState /\ a.head = s.head /\ a.tail = s.tail /\ a.current = s.current
        /\ a.alloc = s.alloc /\ a.cell = b
    BY <2>2, <2>3 DEF ListState, NextIn
  <2>5. r \in ListState /\ r.head = s.head /\ r.tail = s.tail /\ r.current = s.current
        /\ r.alloc = s.alloc /\ r.cell = b /\ r.stale = (s.stale \/ task \notin s.alloc)
    BY <2>1, <2>4 DEF ListState
  <2> QED
    BY <2>3, <2>5 DEF NextStored, NextIn
<1>2. CASE task \notin Cells
  <2>1. r = [s EXCEPT !.stale = TRUE]
    BY <1>2 DEF StoreNext
  <2> HIDE DEF r
  <2>2. /\ r \in ListState /\ r.head = s.head /\ r.tail = s.tail /\ r.current = s.current
        /\ r.alloc = s.alloc /\ r.cell = s.cell /\ r.stale = TRUE /\ task \notin s.alloc
    BY <1>2, <2>1 DEF ListState
  <2> QED
    BY <1>2, <2>2 DEF NextStored
<1> QED
  BY <1>1, <1>2

\* r is s with task appended for process p; the first task of all is the current one.
Appended(s, task, p, r) ==
    /\ r \in ListState
    /\ r.alloc = s.alloc \cup {task}
    /\ r.tail = task
    /\ r.head = IF s.head = NULL THEN task ELSE s.head
    /\ r.current = IF s.head = NULL THEN task ELSE s.current
    /\ r.cell[task].process = p
    /\ r.cell[task].prev = IF s.head = NULL THEN NULL ELSE s.tail
    /\ r.cell[task].next = IF s.head # NULL /\ s.tail = task THEN task ELSE NULL
    /\ r.stale = (s.stale \/ (s.head # NULL /\ s.tail \notin s.alloc \cup {task}))
    /\ \A t \in Cells \ {task} :
         /\ r.cell[t].process = s.cell[t].process
         /\ r.cell[t].prev = s.cell[t].prev
         /\ r.cell[t].next = IF s.head # NULL /\ t = s.tail THEN task ELSE s.cell[t].next

\* What task_new does.
LEMMA TaskNewFacts ==
    ASSUME NEW s \in ListState, NEW task \in Cells, NEW p \in Slots
    PROVE  Appended(s, task, p, task_new(s, task, p))
<1> DEFINE r == task_new(s, task, p)
<1> SUFFICES Appended(s, task, p, r)
  OBVIOUS
<1> DEFINE zeroed == [EmptyCell EXCEPT !.process = p]
           b == [s.cell EXCEPT ![task] = zeroed]
           a == [s EXCEPT !.cell = b]
           new == [a EXCEPT !.alloc = s.alloc \cup {task}]
<1>1. zeroed \in TaskStruct /\ zeroed.next = NULL /\ zeroed.prev = NULL /\ zeroed.process = p
  BY DEF EmptyCell, TaskStruct, Pointers
<1>2. [s EXCEPT !.cell[task] = zeroed, !.alloc = @ \cup {task}] = new
  <2>1. [s EXCEPT !.cell[task] = zeroed] = a
    BY DEF ListState
  <2>2. [s EXCEPT !.cell[task] = zeroed].alloc = s.alloc
    BY DEF ListState
  <2>3. [s EXCEPT !.cell[task] = zeroed, !.alloc = @ \cup {task}]
          = [[s EXCEPT !.cell[task] = zeroed] EXCEPT !.alloc = @ \cup {task}]
    BY Zenon
  <2> QED
    BY <2>1, <2>2, <2>3, Zenon
<1> HIDE DEF zeroed
<1>3. /\ b \in [Cells -> TaskStruct]
      /\ \A t \in Cells : b[t] = IF t = task THEN zeroed ELSE s.cell[t]
  BY <1>1 DEF ListState
<1> HIDE DEF b
<1>4. a \in ListState /\ a.head = s.head /\ a.tail = s.tail /\ a.current = s.current
      /\ a.alloc = s.alloc /\ a.cell = b /\ a.stale = s.stale
  BY <1>3 DEF ListState
<1> HIDE DEF a
<1>5. new \in ListState /\ new.head = s.head /\ new.tail = s.tail /\ new.current = s.current
      /\ new.alloc = s.alloc \cup {task} /\ new.cell = b /\ new.stale = s.stale
  BY <1>4 DEF ListState
<1> HIDE DEF new
<1>6. CASE s.head = NULL
  <2> DEFINE r1 == [new EXCEPT !.head = task]
             r2 == [r1 EXCEPT !.tail = task]
  <2>1. r = [r2 EXCEPT !.current = task]
    BY <1>2, <1>6, Zenon DEF task_new, zeroed
  <2> HIDE DEF r
  <2>2. r1 \in ListState /\ r1.head = task /\ r1.alloc = new.alloc /\ r1.cell = b /\ r1.stale = s.stale
    BY <1>5 DEF ListState, Pointers
  <2> HIDE DEF r1
  <2>3. r2 \in ListState /\ r2.head = task /\ r2.tail = task /\ r2.alloc = new.alloc /\ r2.cell = b
        /\ r2.stale = s.stale
    BY <2>2 DEF ListState, Pointers
  <2> HIDE DEF r2
  <2>4. r \in ListState /\ r.head = task /\ r.tail = task /\ r.alloc = new.alloc /\ r.cell = b
        /\ r.stale = s.stale /\ r.current = task
    BY <2>1, <2>3 DEF ListState, Pointers
  <2>5. \A t \in Cells : b[t] = IF t = task THEN zeroed ELSE s.cell[t]
    BY <1>3
  <2>6. r.stale = (s.stale \/ (s.head # NULL /\ s.tail \notin s.alloc \cup {task}))
    BY <1>6, <2>4, Zenon DEF ListState
  <2> QED
    BY <1>1, <1>5, <1>6, <2>4, <2>5, <2>6 DEF Appended
<1>7. CASE s.head # NULL
  <2> DEFINE n == StoreNext(new, s.tail, task)
             c == [n.cell EXCEPT ![task].prev = s.tail]
             m == [n EXCEPT !.cell = c]
  <2>0. s.tail \in Pointers /\ task \in Pointers
    BY DEF ListState, Pointers
  <2>1. r = [n EXCEPT !.cell[task].prev = s.tail, !.tail = task]
    BY <1>2, <1>7, Zenon DEF task_new, zeroed
  <2> HIDE DEF r
  <2>2. /\ n \in ListState
        /\ n.head = s.head /\ n.tail = s.tail /\ n.current = s.current
        /\ n.alloc = s.alloc \cup {task}
        /\ n.stale = (s.stale \/ s.tail \notin s.alloc \cup {task})
        /\ \A t \in Cells :
             /\ n.cell[t].next = IF t = s.tail THEN task ELSE b[t].next
             /\ n.cell[t].prev = b[t].prev
             /\ n.cell[t].process = b[t].process
    <3>1. NextStored(new, s.tail, task, n)
      BY <1>5, <2>0, StoreNextFacts
    <3> HIDE DEF n
    <3> QED
      BY <1>5, <3>1 DEF NextStored
  <2> HIDE DEF n
  <2>3. [n EXCEPT !.cell[task].prev = s.tail] = m
    BY <2>2 DEF ListState
  <2>4. r = [m EXCEPT !.tail = task]
    BY <2>1, <2>3, Zenon
  <2>5. PrevIn(n.cell, task, s.tail, c)
    <3>1. n.cell \in [Cells -> TaskStruct]
      BY <2>2 DEF ListState
    <3> QED
      BY <2>0, <3>1, CellUpdate
  <2> HIDE DEF c
  <2>6. /\ m \in ListState /\ m.head = n.head /\ m.current = n.current /\ m.alloc = n.alloc
        /\ m.stale = n.stale /\ m.cell = c
    BY <2>2, <2>5 DEF ListState, PrevIn
  <2> HIDE DEF m
  <2>7. /\ r \in ListState /\ r.head = n.head /\ r.current = n.current /\ r.alloc = n.alloc
        /\ r.stale = n.stale /\ r.cell = c /\ r.tail = task
    BY <2>4, <2>6, <2>0 DEF ListState
  <2>8. /\ c[task].process = p /\ c[task].prev = s.tail
        /\ c[task].next = IF s.tail = task THEN task ELSE NULL
    BY <1>1, <1>3, <2>2, <2>5 DEF PrevIn
  <2>9. \A t \in Cells \ {task} :
          /\ c[t].process = s.cell[t].process
          /\ c[t].prev = s.cell[t].prev
          /\ c[t].next = IF t = s.tail THEN task ELSE s.cell[t].next
    BY <1>3, <2>2, <2>5 DEF PrevIn
  <2> QED
    BY <1>7, <2>2, <2>7, <2>8, <2>9 DEF Appended
<1> QED
  BY <1>6, <1>7

\* r is s without task: its predecessor, as far as its own prev pointer knows it, points
\* to its successor, head, tail and current move on, and no prev pointer changes.
Removed(s, task, r) ==
    LET x == s.cell[task].prev
        y == s.cell[task].next
    IN  /\ r \in ListState
        /\ r.alloc = s.alloc \ {task}
        /\ r.head = IF task = s.head THEN y ELSE s.head
        /\ r.tail = IF task = s.tail THEN x ELSE s.tail
        /\ r.current = IF task = s.current THEN (IF y = NULL THEN r.head ELSE y)
                       ELSE s.current
        /\ r.stale = (s.stale \/ ~PrevRight(s, task))
        /\ \A t \in Cells :
             /\ r.cell[t].next = IF t = x THEN y ELSE s.cell[t].next
             /\ r.cell[t].prev = s.cell[t].prev
             /\ r.cell[t].process = s.cell[t].process

\* What task_free does.
LEMMA TaskFreeFacts ==
    ASSUME NEW s \in ListState, NEW task \in Cells
    PROVE  Removed(s, task, task_free(s, task))
<1> DEFINE x == s.cell[task].prev
           y == s.cell[task].next
           s1 == UnlinkNext(s, task)
           s2 == IF task = s.head THEN [s1 EXCEPT !.head = s1.cell[task].next] ELSE s1
           s3 == IF task = s.tail THEN [s2 EXCEPT !.tail = s2.cell[task].prev] ELSE s2
           s4 == IF task = s.current THEN [s3 EXCEPT !.current = task_get_next(s3)] ELSE s3
           r == [s4 EXCEPT !.alloc = @ \ {task}]
<1>1. task_free(s, task) = r
  BY Zenon DEF task_free, task_list_remove
<1>2. x \in Pointers /\ y \in Pointers /\ task # NULL
  BY CellsAssumption DEF ListState, TaskStruct
<1>p. (x # NULL /\ x \notin s.alloc) => ~PrevRight(s, task)
  BY DEF PrevRight
<1>q. x = NULL => PrevRight(s, task)
  BY DEF PrevRight
<1>u. s1 = IF x = NULL THEN s
           ELSE [StoreNext(s, x, y) EXCEPT !.stale = @ \/ ~PrevRight(s, task)]
  BY Zenon DEF UnlinkNext
<1> HIDE DEF x, y, s1
<1>3. /\ s1 \in ListState
      /\ s1.head = s.head /\ s1.tail = s.tail /\ s1.current = s.current /\ s1.alloc = s.alloc
      /\ s1.stale = (s.stale \/ ~PrevRight(s, task))
      /\ \A t \in Cells :
           /\ s1.cell[t].next = IF t = x THEN y ELSE s.cell[t].next
           /\ s1.cell[t].prev = s.cell[t].prev
           /\ s1.cell[t].process = s.cell[t].process
  <2>1. CASE x # NULL
    <3> DEFINE n == StoreNext(s, x, y)
    <3>1. NextStored(s, x, y, n)
      BY <1>2, StoreNextFacts
    <3>2. s1 = [n EXCEPT !.stale = n.stale \/ ~PrevRight(s, task)]
      BY <1>u, <2>1, Zenon
    <3> HIDE DEF n
    <3>3. n \in ListState /\ n.stale = (s.stale \/ x \notin s.alloc)
      BY <3>1 DEF NextStored
    <3>4. /\ s1 \in ListState /\ s1.head = n.head /\ s1.tail = n.tail
          /\ s1.current = n.current /\ s1.alloc = n.alloc /\ s1.cell = n.cell
          /\ s1.stale = (n.stale \/ ~PrevRight(s, task))
      BY <3>2, <3>3 DEF ListState
    <3>5. s1.stale = (s.stale \/ ~PrevRight(s, task))
      BY <1>p, <2>1, <3>3, <3>4
    <3> QED
      BY <3>1, <3>4, <3>5 DEF NextStored
  <2>2. CASE x = NULL
    <3>1. s1 = s /\ s.stale \in BOOLEAN /\ PrevRight(s, task)
      BY <1>u, <1>q, <2>2 DEF ListState
    <3>2. s1.stale = (s.stale \/ ~PrevRight(s, task))
      BY <3>1
    <3> QED
      BY <2>2, <3>1, <3>2, CellsAssumption
  <2> QED
    BY <2>1, <2>2
<1>4. s1.cell[task].next = y /\ s1.cell[task].prev = x
  BY <1>3 DEF x, y
<1>5. /\ s2 \in ListState
      /\ s2.head = IF task = s.head THEN y ELSE s.head
      /\ s2.tail = s1.tail /\ s2.current = s1.current /\ s2.alloc = s1.alloc
      /\ s2.stale = s1.stale /\ s2.cell = s1.cell
  BY <1>2, <1>3, <1>4 DEF ListState
<1> HIDE DEF s2
<1>6. /\ s3 \in ListState
      /\ s3.tail = IF task = s.tail THEN x ELSE s.tail
      /\ s3.head = s2.head /\ s3.current = s1.current /\ s3.alloc = s1.alloc
      /\ s3.stale = s1.stale /\ s3.cell = s1.cell
  BY <1>2, <1>3, <1>4, <1>5 DEF ListState
<1> HIDE DEF s3
<1>7. task = s.current => task_get_next(s3) = IF y = NULL THEN s3.head ELSE y
  BY <1>3, <1>4, <1>6 DEF task_get_next
<1>8. /\ s4 \in ListState
      /\ s4.current = IF task = s.current THEN (IF y = NULL THEN s3.head ELSE y) ELSE s.current
      /\ s4.head = s3.head /\ s4.tail = s3.tail /\ s4.alloc = s1.alloc
      /\ s4.stale = s1.stale /\ s4.cell = s1.cell
  BY <1>2, <1>3, <1>6, <1>7 DEF ListState
<1> HIDE DEF s4
<1>9. /\ r \in ListState
      /\ r.current = s4.current
      /\ r.head = s4.head /\ r.tail = s4.tail /\ r.alloc = s4.alloc \ {task}
      /\ r.stale = s4.stale /\ r.cell = s4.cell
  BY <1>8 DEF ListState
<1> HIDE DEF r
<1>10. Removed(s, task, r)
  BY <1>3, <1>5, <1>6, <1>8, <1>9 DEF Removed, x, y
<1> QED
  BY <1>1, <1>10

\* Moving current.
LEMMA CurrentSet ==
    ASSUME NEW s \in ListState, NEW task \in Pointers
    PROVE  LET r == [s EXCEPT !.current = task]
           IN  /\ r \in ListState /\ r.current = task
               /\ r.head = s.head /\ r.tail = s.tail /\ r.alloc = s.alloc
               /\ r.stale = s.stale /\ r.cell = s.cell
  BY DEF ListState

-----------------------------------------------------------------------------
\* The process table and a list state agree.
Agree(s, table) ==
    /\ table \in [Slots -> Cells \cup {NULL}]
    /\ \A p \in Slots : table[p] # NULL =>
          table[p] \in s.alloc /\ s.cell[table[p]].process = p
    /\ \A t \in s.alloc : s.cell[t].process \in Slots /\ table[s.cell[t].process] = t

\* They agree after a task was appended for a free slot.
LEMMA AgreeAfterNew ==
    ASSUME NEW s \in ListState, NEW table, Agree(s, table),
           NEW task \in Cells \ s.alloc, NEW p \in Slots, table[p] = NULL,
           NEW r, Appended(s, task, p, r)
    PROVE  Agree(r, [table EXCEPT ![p] = task])
<1> DEFINE new == [table EXCEPT ![p] = task]
<1>1. /\ table \in [Slots -> Cells \cup {NULL}] /\ task # NULL
      /\ s.alloc \subseteq Cells /\ NULL \notin s.alloc
  BY CellsAssumption DEF Agree, ListState
<1>2. /\ new \in [Slots -> Cells \cup {NULL}]
      /\ new[p] = task /\ \A q \in Slots \ {p} : new[q] = table[q]
  BY <1>1
<1> HIDE DEF new
<1>3. ASSUME NEW q \in Slots, new[q] # NULL
      PROVE  new[q] \in r.alloc /\ r.cell[new[q]].process = q
  BY <1>1, <1>2, <1>3 DEF Agree, Appended
<1>4. ASSUME NEW t \in r.alloc
      PROVE  r.cell[t].process \in Slots /\ new[r.cell[t].process] = t
  BY <1>1, <1>2 DEF Agree, Appended
<1>5. Agree(r, new)
  BY <1>2, <1>3, <1>4 DEF Agree
<1> QED
  BY <1>5 DEF new

\* They agree after a task was freed and its slot with it.
LEMMA AgreeAfterFree ==
    ASSUME NEW s \in ListState, NEW table, Agree(s, table), NEW task \in s.alloc,
           NEW r, Removed(s, task, r)
    PROVE  Agree(r, [table EXCEPT ![s.cell[task].process] = NULL])
<1> DEFINE p == s.cell[task].process
           new == [table EXCEPT ![p] = NULL]
<1>1. /\ table \in [Slots -> Cells \cup {NULL}] /\ p \in Slots /\ table[p] = task
      /\ s.alloc \subseteq Cells /\ NULL \notin s.alloc
  BY CellsAssumption DEF Agree, ListState
<1>2. /\ new \in [Slots -> Cells \cup {NULL}]
      /\ new[p] = NULL /\ \A q \in Slots \ {p} : new[q] = table[q]
  BY <1>1
<1> HIDE DEF new
<1>3. ASSUME NEW q \in Slots, new[q] # NULL
      PROVE  new[q] \in r.alloc /\ r.cell[new[q]].process = q
  BY <1>1, <1>2, <1>3 DEF Agree, Removed
<1>4. ASSUME NEW t \in r.alloc
      PROVE  r.cell[t].process \in Slots /\ new[r.cell[t].process] = t
  BY <1>1, <1>2 DEF Agree, Removed
<1>5. Agree(r, new)
  BY <1>2, <1>3, <1>4 DEF Agree
<1> QED
  BY <1>5 DEF new

-----------------------------------------------------------------------------
SchedulerType ==
    /\ tasks \in ListState
    /\ current_process \in Slots \cup {NULL}
    /\ mode \in Modes

\* The inductive invariant for exits in any order.  The list may have lost tasks and
\* hold pointers to freed ones; but the current task and the head are allocated, or the
\* step that broke it has run a freed task (mode "wild").
TInv ==
    /\ SchedulerType
    /\ Agree(tasks, processes)
    /\ mode \in {"load shell", "start", "user"} =>
          /\ current_process \in Slots /\ processes[current_process] # NULL
          /\ tasks.head \in tasks.alloc
    /\ mode \in {"load shell", "user"} => tasks.current \in tasks.alloc
    /\ mode = "load blank" => tasks = EmptyList

\* process_get_free_slot returns a free slot if there is one.
LEMMA FreeSlotIsFree ==
    ASSUME FreeSlots # {}
    PROVE  process_get_free_slot \in Slots /\ processes[process_get_free_slot] = NULL
<1>1. FreeSlots \subseteq Nat
  BY SlotsAssumption DEF FreeSlots
<1>2. \E p \in FreeSlots : \A q \in FreeSlots : p <= q
  BY <1>1, LeastOf
<1>3. process_get_free_slot \in FreeSlots
  BY <1>2 DEF process_get_free_slot
<1> QED
  BY <1>3 DEF FreeSlots

\* The empty list.
LEMMA EmptyListFacts ==
    /\ EmptyList \in ListState /\ EmptyList.alloc = {} /\ EmptyList.head = NULL
    /\ EmptyList.tail = NULL /\ EmptyList.stale = FALSE
<1>1. EmptyCell \in TaskStruct
  BY DEF EmptyCell, TaskStruct, Pointers
<1> QED
  BY <1>1 DEF EmptyList, ListState, Pointers

\* The initial state.
LEMMA TInvInit == Init => TInv
  BY EmptyListFacts DEF Init, TInv, SchedulerType, Agree, Modes

\* What the successful loads do: a task is appended for a slot that was free.
LEMMA LoadEffect ==
    ASSUME TInv, FreeSlots # {}, NEW task \in FreshCells, NEW s,
           s = task_new(tasks, task, process_get_free_slot)
    PROVE  \E p \in Slots :
             /\ processes[p] = NULL /\ p = process_get_free_slot
             /\ Appended(tasks, task, p, s)
             /\ Agree(s, [processes EXCEPT ![p] = task])
             /\ [processes EXCEPT ![p] = task][p] = task /\ task # NULL
<1> DEFINE p == process_get_free_slot
<1>0. tasks \in ListState /\ Agree(tasks, processes) /\ task \in Cells \ tasks.alloc
  BY DEF TInv, SchedulerType, FreshCells
<1>1. p \in Slots /\ processes[p] = NULL
  BY FreeSlotIsFree
<1> HIDE DEF p
<1>2. Appended(tasks, task, p, s)
  BY <1>0, <1>1, TaskNewFacts DEF p
<1>3. Agree(s, [processes EXCEPT ![p] = task])
  BY <1>0, <1>1, <1>2, AgreeAfterNew
<1>4. [processes EXCEPT ![p] = task][p] = task /\ task # NULL
  BY <1>0, <1>1, CellsAssumption DEF Agree
<1> QED
  BY <1>1, <1>2, <1>3, <1>4 DEF p

\* A load that returns to its caller or to kernel_main.
LEMMA LoadSwitchStep ==
    ASSUME TInv, FreeSlots # {}, NEW task \in FreshCells, process_load_switch(task)
    PROVE  /\ tasks' \in ListState /\ Agree(tasks', processes')
           /\ current_process' \in Slots /\ processes'[current_process'] # NULL
           /\ tasks'.head = IF tasks.head = NULL THEN task ELSE tasks.head
           /\ tasks'.current = IF tasks.head = NULL THEN task ELSE tasks.current
           /\ tasks'.alloc = tasks.alloc \cup {task}
<1>1. PICK p \in Slots :
             /\ processes[p] = NULL /\ p = process_get_free_slot
             /\ Appended(tasks, task, p, tasks')
             /\ Agree(tasks', [processes EXCEPT ![p] = task])
             /\ [processes EXCEPT ![p] = task][p] = task /\ task # NULL
  BY LoadEffect DEF process_load_switch
<1>2. processes' = [processes EXCEPT ![p] = task] /\ current_process' = p
  BY <1>1 DEF process_load_switch
<1> QED
  BY <1>1, <1>2 DEF Appended

\* The keyboard after process p was unlinked: with a process that is left, if one is.
LEMMA UnlinkKeyboard ==
    ASSUME TInv, mode = "user", NEW p \in Slots, process_unlink(p)
    PROVE  /\ processes' = [processes EXCEPT ![p] = NULL]
           /\ current_process' \in Slots
           /\ ~NoneLeft(p) => processes'[current_process'] # NULL
<1>1. /\ processes \in [Slots -> Cells \cup {NULL}]
      /\ current_process \in Slots /\ processes[current_process] # NULL
  BY DEF TInv, Agree
<1>2. processes' = [processes EXCEPT ![p] = NULL]
  BY DEF process_unlink
<1>3. \A q \in Slots \ {p} : processes'[q] = processes[q]
  BY <1>1, <1>2
<1>4. CASE current_process # p
  <2>1. current_process' = current_process
    BY <1>4 DEF process_unlink
  <2> QED
    BY <1>1, <1>2, <1>3, <1>4, <2>1
<1>5. CASE current_process = p
  <2> DEFINE left == {q \in Slots \ {p} : processes[q] # NULL}
  <2>1. current_process' = IF left = {} THEN p
                           ELSE CHOOSE q \in left : \A r \in left : q <= r
    BY <1>5 DEF process_unlink
  <2>2. CASE left = {}
    BY <1>2, <1>5, <2>1, <2>2 DEF NoneLeft
  <2>3. CASE left # {}
    <3>1. \E q \in left : \A r \in left : q <= r
      <4>1. left \subseteq Nat
        BY SlotsAssumption
      <4> HIDE DEF left
      <4> QED
        BY <2>3, <4>1, LeastOf
    <3>2. current_process' \in left
      BY <2>1, <2>3, <3>1
    <3> QED
      BY <1>2, <1>3, <3>2
  <2> QED
    BY <2>2, <2>3
<1> QED
  BY <1>4, <1>5

\* The process of the current task is that task's own, and is freed with it.
LEMMA ExitEffect ==
    ASSUME TInv, process_terminate_current
    PROVE  \E s :
             /\ mode = "user" /\ tasks.current \in tasks.alloc /\ tasks.head \in tasks.alloc
             /\ s = task_free(tasks, tasks.current)
             /\ Removed(tasks, tasks.current, s)
             /\ Agree(s, processes')
             /\ current_process' \in Slots
             /\ \/ tasks' = s /\ mode' = "panic" /\ s.alloc = {}
                \/ processes'[current_process'] # NULL /\ task_next(s)
<1> DEFINE task == tasks.current
           p == tasks.cell[task].process
           s == task_free(tasks, task)
<1>1. /\ mode = "user" /\ task \in tasks.alloc /\ tasks.head \in tasks.alloc
      /\ tasks \in ListState /\ Agree(tasks, processes) /\ task \in Cells
  BY DEF TInv, process_terminate_current, SchedulerType, ListState
<1>2. p \in Slots /\ processes[p] = task
  BY <1>1 DEF Agree
<1>3. /\ process_unlink(p)
      /\ IF NoneLeft(p) THEN tasks' = s /\ mode' = "panic" ELSE task_next(s)
  BY <1>2 DEF process_terminate_current
<1>4. Removed(tasks, task, s)
  BY <1>1, TaskFreeFacts
<1>5. Agree(s, [processes EXCEPT ![p] = NULL])
  BY <1>1, <1>4, AgreeAfterFree
<1>6. /\ processes' = [processes EXCEPT ![p] = NULL]
      /\ current_process' \in Slots
      /\ ~NoneLeft(p) => processes'[current_process'] # NULL
  BY <1>1, <1>2, <1>3, UnlinkKeyboard
<1> HIDE DEF p, s
<1>7. Agree(s, processes')
  BY <1>5, <1>6
<1>8. \/ tasks' = s /\ mode' = "panic" /\ s.alloc = {}
      \/ processes'[current_process'] # NULL /\ task_next(s)
  <2>1. ASSUME NoneLeft(p) PROVE s.alloc = {}
    <3>1. \A q \in Slots : processes'[q] = NULL
      BY <1>1, <1>6, <2>1 DEF NoneLeft, Agree
    <3>2. s.alloc \subseteq Cells
      BY <1>4 DEF Removed, ListState
    <3> QED
      BY <1>7, <3>1, <3>2, CellsAssumption DEF Agree
  <2> QED
    BY <1>3, <1>6, <2>1
<1> QED
  BY <1>1, <1>4, <1>6, <1>7, <1>8 DEF s

\* task_next on a list state ends in user code with an allocated task, in a panic, or
\* in a freed task.
LEMMA TaskNextEffect ==
    ASSUME NEW s \in ListState, task_next(s)
    PROVE  /\ tasks' \in ListState
           /\ tasks'.head = s.head /\ tasks'.tail = s.tail /\ tasks'.alloc = s.alloc
           /\ tasks'.cell = s.cell /\ tasks'.stale = s.stale
           /\ \/ mode' = "wild"
              \/ mode' = "panic" /\ s.current \in s.alloc /\ task_get_next(s) = NULL
              \/ /\ mode' = "user" /\ s.current \in s.alloc
                 /\ tasks'.current = task_get_next(s) /\ tasks'.current \in s.alloc
<1>1. CASE s.current \notin s.alloc
  BY <1>1 DEF task_next
<1>2. CASE s.current \in s.alloc
  <2> DEFINE next_task == task_get_next(s)
  <2>1. next_task \in Pointers
    <3>1. s.cell[s.current] \in TaskStruct /\ s.head \in Pointers
      BY <1>2 DEF ListState
    <3> QED
      BY <3>1 DEF task_get_next, TaskStruct
  <2>2. \/ next_task = NULL /\ tasks' = s /\ mode' = "panic"
        \/ next_task \in s.alloc /\ tasks' = [s EXCEPT !.current = next_task] /\ mode' = "user"
        \/ tasks' = [s EXCEPT !.current = next_task] /\ mode' = "wild"
    BY <1>2 DEF task_next
  <2> HIDE DEF next_task
  <2>3. LET r == [s EXCEPT !.current = next_task]
           IN  /\ r \in ListState /\ r.current = next_task
               /\ r.head = s.head /\ r.tail = s.tail /\ r.alloc = s.alloc
               /\ r.stale = s.stale /\ r.cell = s.cell
    BY <2>1, CurrentSet
  <2> QED
    BY <1>2, <2>2, <2>3 DEF next_task
<1> QED
  BY <1>1, <1>2

\* Agreement depends on which tasks there are and on their processes.
LEMMA AgreeSame ==
    ASSUME NEW s, NEW r, NEW table, Agree(s, table), r.alloc = s.alloc, r.cell = s.cell
    PROVE  Agree(r, table)
  BY DEF Agree

\* A load that fails in process_map_memory leaves everything but links as it was.
LEMMA MapFailsEffect ==
    ASSUME TInv, load_map_fails
    PROVE  /\ mode = "user" /\ tasks' \in ListState
           /\ tasks'.alloc = tasks.alloc /\ tasks'.head = tasks.head
           /\ tasks'.current = tasks.current
           /\ \A t \in tasks.alloc : tasks'.cell[t].process = tasks.cell[t].process
           /\ UNCHANGED <<processes, current_process, mode>>
           /\ \E s : \E task \in FreshCells, p \in Slots :
                Appended(tasks, task, p, s) /\ Removed(s, task, tasks')
<1>1. PICK task \in FreshCells :
        tasks' = task_free(task_new(tasks, task, process_get_free_slot), task)
  BY DEF load_map_fails
<1> DEFINE s == task_new(tasks, task, process_get_free_slot)
<1>2. FreeSlots # {} /\ mode = "user" /\ UNCHANGED <<processes, current_process, mode>>
  BY DEF load_map_fails
<1>3. PICK p \in Slots : Appended(tasks, task, p, s)
  BY <1>2, LoadEffect
<1>4. Removed(s, task, tasks')
  <2>1. s \in ListState /\ task \in Cells
    BY <1>3 DEF Appended, FreshCells
  <2> QED
    BY <1>1, <2>1, TaskFreeFacts
<1> HIDE DEF s
<1>5. /\ tasks.head \in tasks.alloc /\ tasks.current \in tasks.alloc /\ task \notin tasks.alloc
      /\ tasks.alloc \subseteq Cells /\ NULL \notin tasks.alloc
  BY <1>2, CellsAssumption DEF TInv, SchedulerType, ListState, FreshCells
<1>6. /\ s.head = tasks.head /\ s.current = tasks.current /\ s.alloc = tasks.alloc \cup {task}
      /\ \A t \in tasks.alloc : s.cell[t].process = tasks.cell[t].process
  BY <1>3, <1>5 DEF Appended
<1>7. /\ tasks' \in ListState /\ tasks'.head = s.head /\ tasks'.current = s.current
      /\ tasks'.alloc = s.alloc \ {task}
      /\ \A t \in tasks.alloc : tasks'.cell[t].process = s.cell[t].process
  BY <1>4, <1>5, <1>6 DEF Removed
<1>8. tasks'.alloc = tasks.alloc
  BY <1>5, <1>6, <1>7
<1> QED
  BY <1>2, <1>3, <1>4, <1>6, <1>7, <1>8

\* Every step keeps the invariant.
LEMMA TInvStep == TInv /\ [Next]_vars => TInv'
<1> SUFFICES ASSUME TInv, [Next]_vars PROVE TInv'
  OBVIOUS
<1>0. /\ tasks \in ListState /\ tasks.alloc \subseteq Cells /\ NULL \notin tasks.alloc
      /\ Agree(tasks, processes) /\ mode \in Modes /\ current_process \in Slots \cup {NULL}
  BY CellsAssumption DEF TInv, SchedulerType, ListState
<1>1. CASE BootLoad
  <2>1. PICK task \in FreshCells : process_load_switch(task)
    BY <1>1 DEF BootLoad
  <2>2. /\ mode \in {"load blank", "load shell"} /\ FreeSlots # {}
        /\ mode' = IF mode = "load blank" THEN "load shell" ELSE "start"
    BY <1>1 DEF BootLoad
  <2>3. mode = "load blank" => tasks.head = NULL
    BY EmptyListFacts DEF TInv
  <2> QED
    BY <2>1, <2>2, <2>3, LoadSwitchStep DEF TInv, SchedulerType, Modes
<1>2. CASE BootFails
  BY <1>2 DEF BootFails, TInv, SchedulerType, Modes
<1>3. CASE task_run_first_ever_task
  <2>1. /\ mode = "start" /\ mode' = "user" /\ UNCHANGED <<processes, current_process>>
        /\ tasks' = [tasks EXCEPT !.current = tasks.head]
        /\ tasks.head \in tasks.alloc /\ tasks.head \in Pointers
    BY <1>0, <1>3 DEF task_run_first_ever_task, TInv, Pointers
  <2>2. /\ tasks' \in ListState /\ tasks'.current = tasks.head
        /\ tasks'.head = tasks.head /\ tasks'.alloc = tasks.alloc /\ tasks'.cell = tasks.cell
    BY <1>0, <2>1, CurrentSet
  <2>3. Agree(tasks', processes')
    BY <1>0, <2>1, <2>2, AgreeSame
  <2> QED
    BY <2>1, <2>2, <2>3 DEF TInv, SchedulerType, Modes
<1>4. CASE idt_clock
  <2>1. mode = "user" /\ task_next(tasks) /\ UNCHANGED <<processes, current_process>>
    BY <1>4 DEF idt_clock
  <2>2. /\ tasks' \in ListState
        /\ tasks'.head = tasks.head /\ tasks'.alloc = tasks.alloc /\ tasks'.cell = tasks.cell
        /\ \/ mode' \in {"wild", "panic"}
           \/ mode' = "user" /\ tasks'.current \in tasks.alloc
    BY <1>0, <2>1, TaskNextEffect
  <2>3. Agree(tasks', processes')
    BY <1>0, <2>1, <2>2, AgreeSame
  <2> QED
    BY <2>1, <2>2, <2>3 DEF TInv, SchedulerType, Modes
<1>5. CASE process_terminate_current
  <2>1. PICK s :
          /\ mode = "user" /\ tasks.current \in tasks.alloc /\ tasks.head \in tasks.alloc
          /\ Removed(tasks, tasks.current, s)
          /\ Agree(s, processes')
          /\ current_process' \in Slots
          /\ \/ tasks' = s /\ mode' = "panic"
             \/ processes'[current_process'] # NULL /\ task_next(s)
    BY <1>5, ExitEffect
  <2>2. s \in ListState
    BY <2>1 DEF Removed
  <2>3. CASE tasks' = s /\ mode' = "panic"
    BY <2>1, <2>2, <2>3 DEF TInv, SchedulerType, Modes
  <2>4. CASE processes'[current_process'] # NULL /\ task_next(s)
    <3>1. /\ tasks' \in ListState
          /\ tasks'.head = s.head /\ tasks'.alloc = s.alloc /\ tasks'.cell = s.cell
          /\ \/ mode' \in {"wild", "panic"}
             \/ mode' = "user" /\ s.current \in s.alloc /\ tasks'.current \in s.alloc
      BY <2>2, <2>4, TaskNextEffect
    <3>2. Agree(tasks', processes')
      BY <2>1, <3>1, AgreeSame
    <3>3. s.current \in s.alloc => s.head \in s.alloc
      BY <1>0, <2>1 DEF Removed
    <3> QED
      BY <2>1, <2>4, <3>1, <3>2, <3>3 DEF TInv, SchedulerType, Modes
  <2> QED
    BY <2>1, <2>3, <2>4
<1>6. CASE idt_zero
  BY <1>6 DEF idt_zero, TInv, SchedulerType, Modes
<1>7. CASE process_load_start
  <2>1. PICK task \in FreshCells :
           LET p == process_get_free_slot
           IN  /\ tasks' = [task_new(tasks, task, p) EXCEPT !.current = task]
               /\ processes' = [processes EXCEPT ![p] = task]
               /\ current_process' = p
    BY <1>7 DEF process_load_start
  <2>2. mode = "user" /\ FreeSlots # {} /\ UNCHANGED mode
    BY <1>7 DEF process_load_start
  <2> DEFINE s == task_new(tasks, task, process_get_free_slot)
  <2>3. PICK p \in Slots :
             /\ processes[p] = NULL /\ p = process_get_free_slot
             /\ Appended(tasks, task, p, s)
             /\ Agree(s, [processes EXCEPT ![p] = task])
             /\ [processes EXCEPT ![p] = task][p] = task /\ task # NULL
    BY <2>2, LoadEffect
  <2>4. /\ tasks' = [s EXCEPT !.current = task]
        /\ processes' = [processes EXCEPT ![p] = task] /\ current_process' = p
    BY <2>1, <2>3
  <2> HIDE DEF s
  <2>5. s \in ListState /\ task \in Pointers
    BY <2>3 DEF Appended, FreshCells, Pointers
  <2>6. /\ tasks' \in ListState /\ tasks'.current = task
        /\ tasks'.head = s.head /\ tasks'.alloc = s.alloc /\ tasks'.cell = s.cell
    BY <2>4, <2>5, CurrentSet
  <2>7. Agree(tasks', processes')
    BY <2>3, <2>4, <2>6, AgreeSame
  <2>8. s.head \in s.alloc /\ task \in s.alloc
    BY <1>0, <2>2, <2>3 DEF Appended, TInv
  <2> QED
    BY <2>2, <2>3, <2>4, <2>6, <2>7, <2>8 DEF TInv, SchedulerType, Modes
<1>8. CASE invoke_system_command_inject_fails
  <2>1. PICK task \in FreshCells : process_load_switch(task)
    BY <1>8 DEF invoke_system_command_inject_fails
  <2>2. mode = "user" /\ FreeSlots # {} /\ UNCHANGED mode
    BY <1>8 DEF invoke_system_command_inject_fails
  <2> QED
    BY <1>0, <2>1, <2>2, LoadSwitchStep DEF TInv, SchedulerType, Modes
<1>9. CASE load_map_fails
  <2>1. /\ mode = "user" /\ tasks' \in ListState
        /\ tasks'.alloc = tasks.alloc /\ tasks'.head = tasks.head
        /\ tasks'.current = tasks.current
        /\ \A t \in tasks.alloc : tasks'.cell[t].process = tasks.cell[t].process
        /\ UNCHANGED <<processes, current_process, mode>>
    BY <1>9, MapFailsEffect
  <2>2. Agree(tasks', processes')
    BY <1>0, <2>1 DEF Agree
  <2> QED
    BY <2>1, <2>2 DEF TInv, SchedulerType
<1>10. CASE panic \/ NotFollowed \/ UNCHANGED vars
  BY <1>10 DEF panic, NotFollowed, vars, TInv, SchedulerType
<1> QED
  BY <1>1, <1>2, <1>3, <1>4, <1>5, <1>6, <1>7, <1>8, <1>9, <1>10 DEF Next

\* The process table and the task list agree in every reachable state, whatever the
\* order of loads, failed loads, exits, faults and timer interrupts, and for any number
\* of slots and task structures.
THEOREM TablesAgree == Spec => []TableMatchesTasks
<1>1. TInv => TableMatchesTasks
  BY DEF TInv, Agree, TableMatchesTasks
<1> QED
  BY <1>1, TInvInit, TInvStep, PTL DEF Spec

\* While user code runs, the keyboard belongs to a loaded process, although processes
\* that have it, and others, exit at any time.
THEOREM KeyboardIsOwned == Spec => []KeyboardHasOwner
<1>1. TInv => KeyboardHasOwner
  BY CellsAssumption DEF TInv, KeyboardHasOwner
<1> QED
  BY <1>1, TInvInit, TInvStep, PTL DEF Spec

-----------------------------------------------------------------------------
\* The list is q[1], ..., q[n] along the next pointers.  Only the first task may have no
\* prev; a prev that leads to a task in front leads to the one just in front.
PrevBehind(s, q, i) ==
    /\ i > 1 => s.cell[q[i]].prev # NULL
    /\ \A j \in 1 .. i : s.cell[q[i]].prev = q[j] => j = i - 1

Linked(s, n, q) ==
    /\ n \in Nat /\ q \in [1 .. n -> Cells]
    /\ \A i, j \in 1 .. n : q[i] = q[j] => i = j
    /\ \A t \in Cells : t \in s.alloc <=> \E i \in 1 .. n : t = q[i]
    /\ s.head = IF n = 0 THEN NULL ELSE q[1]
    /\ s.tail = IF n = 0 THEN NULL ELSE q[n]
    /\ \A i \in 1 .. n :
         /\ PrevBehind(s, q, i)
         /\ s.cell[q[i]].next = IF i = n THEN NULL ELSE q[i + 1]

\* The inductive invariant: the list is in order, and no freed task has been run, until
\* a task has been taken out through a prev that did not lead to its predecessor.
NInv ==
    /\ TInv
    /\ ~tasks.stale => mode # "wild" /\ \E n, q : Linked(tasks, n, q)

\* Appending a task.
LEMMA LinkedAppend ==
    ASSUME NEW s \in ListState, NEW n, NEW q, Linked(s, n, q),
           NEW task \in Cells \ s.alloc, NEW p, NEW r, Appended(s, task, p, r)
    PROVE  Linked(r, n + 1, [i \in 1 .. n + 1 |-> IF i = n + 1 THEN task ELSE q[i]])
<1> DEFINE u == [i \in 1 .. n + 1 |-> IF i = n + 1 THEN task ELSE q[i]]
<1>0. n \in Nat /\ q \in [1 .. n -> Cells] /\ task # NULL /\ task \in Cells
  BY CellsAssumption DEF Linked, ListState
<1>1. \A i \in 1 .. n : q[i] # task /\ q[i] # NULL /\ q[i] \in s.alloc /\ q[i] \in Cells
  BY <1>0, CellsAssumption DEF Linked
<1>2. /\ u \in [1 .. n + 1 -> Cells] /\ u[n + 1] = task /\ \A i \in 1 .. n : u[i] = q[i]
      /\ \A i \in 1 .. n + 1 : i \in 1 .. n \/ i = n + 1
  BY <1>0, <1>1
<1> HIDE DEF u
<1>3. s.head = NULL <=> n = 0
  BY <1>0, <1>1 DEF Linked
<1>4. \A i, j \in 1 .. n + 1 : u[i] = u[j] => i = j
  BY <1>0, <1>1, <1>2, SMTT(30) DEF Linked
<1>5. \A t \in Cells : t \in r.alloc <=> \E i \in 1 .. n + 1 : t = u[i]
  <2>1. \A t \in Cells : (\E i \in 1 .. n + 1 : t = u[i]) <=> (t = task \/ \E i \in 1 .. n : t = q[i])
    BY <1>0, <1>2
  <2> QED
    BY <2>1 DEF Linked, Appended
<1>6. r.head = u[1] /\ r.tail = u[n + 1]
  BY <1>0, <1>2, <1>3 DEF Linked, Appended
<1>7. ASSUME NEW i \in 1 .. n + 1
      PROVE  /\ PrevBehind(r, u, i)
             /\ r.cell[u[i]].next = IF i = n + 1 THEN NULL ELSE u[i + 1]
  <2>1. CASE i = n + 1
    <3>1. n # 0 => s.tail = q[n] /\ q[n] # task /\ q[n] = u[n]
      BY <1>0, <1>1, <1>2 DEF Linked
    <3>2. /\ r.cell[task].prev = IF n = 0 THEN NULL ELSE u[n]
          /\ r.cell[task].next = NULL
      BY <1>0, <1>3, <3>1 DEF Appended
    <3>3. n # 0 => u[n] # NULL /\ n \in 1 .. n + 1
      BY <1>0, <1>1, <1>2
    <3>4. ASSUME NEW j \in 1 .. n + 1, r.cell[task].prev = u[j] PROVE j = n
      <4>1. n # 0
        BY <1>0, <1>2, <3>2, <3>4
      <4> QED
        BY <1>4, <3>2, <3>3, <3>4, <4>1
    <3>5. PrevBehind(r, u, i)
      BY <1>0, <1>2, <2>1, <3>2, <3>3, <3>4 DEF PrevBehind
    <3> QED
      BY <1>2, <2>1, <3>2, <3>5
  <2>2. CASE i \in 1 .. n
    <3>1. /\ u[i] = q[i] /\ q[i] \in Cells \ {task} /\ s.head # NULL /\ s.tail = q[n]
          /\ n \in 1 .. n
      BY <1>0, <1>1, <1>2, <1>3, <2>2 DEF Linked
    <3>2. q[i] = q[n] <=> i = n
      BY <2>2, <3>1 DEF Linked
    <3>3. /\ PrevBehind(s, q, i)
          /\ s.cell[q[i]].next = IF i = n THEN NULL ELSE q[i + 1]
      BY <2>2 DEF Linked
    <3>4. /\ r.cell[q[i]].prev = s.cell[q[i]].prev
          /\ r.cell[q[i]].next = IF i = n THEN task ELSE s.cell[q[i]].next
      BY <3>1, <3>2 DEF Appended
    <3>5. \A j \in 1 .. i : u[j] = q[j]
      BY <1>0, <1>2, <2>2
    <3>6. i # n => u[i + 1] = q[i + 1]
      BY <1>0, <1>2, <2>2
    <3>7. PrevBehind(r, u, i)
      BY <3>1, <3>3, <3>4, <3>5 DEF PrevBehind
    <3> QED
      BY <1>0, <1>2, <2>2, <3>1, <3>3, <3>4, <3>6, <3>7
  <2> QED
    BY <1>2, <2>1, <2>2
<1>8. Linked(r, n + 1, u)
  BY <1>0, <1>2, <1>4, <1>5, <1>6, <1>7 DEF Linked
<1> QED
  BY <1>8 DEF u

\* The list without its task number i.
AfterLeaving(q, n, i) == [k \in 1 .. n - 1 |-> IF k < i THEN q[k] ELSE q[k + 1]]

\* u is q[1], ..., q[n] without q[i].
LeavesOut(q, n, i, u) ==
    /\ u \in [1 .. n - 1 -> Cells]
    /\ \A k \in 1 .. n - 1 : u[k] = IF k < i THEN q[k] ELSE q[k + 1]
    /\ \A j, k \in 1 .. n - 1 : u[j] = u[k] => j = k
    /\ \A t \in Cells : (\E k \in 1 .. n - 1 : t = u[k])
                           <=> (t # q[i] /\ \E k \in 1 .. n : t = q[k])

\* What is where in it.
LEMMA AfterLeavingFacts ==
    ASSUME NEW n \in Nat, NEW q \in [1 .. n -> Cells], NEW i \in 1 .. n,
           \A j, k \in 1 .. n : q[j] = q[k] => j = k
    PROVE  n - 1 \in Nat /\ LeavesOut(q, n, i, AfterLeaving(q, n, i))
<1> DEFINE u == AfterLeaving(q, n, i)
<1>1. /\ n - 1 \in Nat /\ i \in Nat
      /\ \A k \in 1 .. n - 1 : k \in 1 .. n /\ k + 1 \in 1 .. n
  OBVIOUS
<1>2. /\ u \in [1 .. n - 1 -> Cells]
      /\ \A k \in 1 .. n - 1 : u[k] = IF k < i THEN q[k] ELSE q[k + 1]
  BY <1>1 DEF AfterLeaving
<1> HIDE DEF u
<1>3. \A j, k \in 1 .. n - 1 : u[j] = u[k] => j = k
  <2> SUFFICES ASSUME NEW j \in 1 .. n - 1, NEW k \in 1 .. n - 1, u[j] = u[k] PROVE j = k
    OBVIOUS
  <2> DEFINE a == IF j < i THEN j ELSE j + 1
             b == IF k < i THEN k ELSE k + 1
  <2>1. a \in 1 .. n /\ b \in 1 .. n /\ u[j] = q[a] /\ u[k] = q[b]
    BY <1>1, <1>2
  <2>2. a = b
    <3> HIDE DEF a, b
    <3> QED
      BY <2>1
  <2> QED
    BY <1>1, <2>2
<1>4. ASSUME NEW k \in 1 .. n - 1 PROVE u[k] # q[i] /\ \E j \in 1 .. n : u[k] = q[j]
  <2> DEFINE a == IF k < i THEN k ELSE k + 1
  <2>1. a \in 1 .. n /\ u[k] = q[a] /\ a # i
    BY <1>1, <1>2
  <2> HIDE DEF a
  <2> QED
    BY <2>1
<1>5. ASSUME NEW k \in 1 .. n, q[k] # q[i] PROVE \E j \in 1 .. n - 1 : q[k] = u[j]
  <2>1. CASE k < i
    <3>1. k \in 1 .. n - 1
      BY <2>1
    <3> QED
      BY <1>2, <2>1, <3>1
  <2>2. CASE k > i
    <3>1. k - 1 \in 1 .. n - 1 /\ ~(k - 1 < i) /\ (k - 1) + 1 = k
      BY <1>1, <2>2
    <3>2. q[k] = u[k - 1]
      BY <1>2, <3>1
    <3> QED
      BY <3>1, <3>2
  <2>3. k # i
    BY <1>5
  <2> QED
    BY <1>1, <2>1, <2>2, <2>3
<1>6. \A t \in Cells : (\E k \in 1 .. n - 1 : t = u[k]) <=> (t # q[i] /\ \E k \in 1 .. n : t = q[k])
  BY <1>4, <1>5
<1> QED
  BY <1>1, <1>2, <1>3, <1>6 DEF u, LeavesOut

\* Removing any task through a prev that is right.
LEMMA LinkedRemove ==
    ASSUME NEW s \in ListState, NEW n, NEW q, Linked(s, n, q), NEW i \in 1 .. n,
           NEW r, Removed(s, q[i], r), ~r.stale
    PROVE  Linked(r, n - 1, AfterLeaving(q, n, i))
<1> DEFINE m == n - 1
           u == AfterLeaving(q, n, i)
           task == q[i]
           x == s.cell[task].prev
           y == s.cell[task].next
<1>0. /\ n \in Nat /\ q \in [1 .. n -> Cells] /\ NULL \notin Cells /\ i \in Nat /\ i >= 1
      /\ \A j, k \in 1 .. n : q[j] = q[k] => j = k
      /\ \A k \in 1 .. n : q[k] \in Cells /\ q[k] \in s.alloc
  BY CellsAssumption DEF Linked
<1>1. /\ m \in Nat /\ u \in [1 .. m -> Cells] /\ n = m + 1
      /\ \A k \in 1 .. m : u[k] = IF k < i THEN q[k] ELSE q[k + 1]
      /\ \A j, k \in 1 .. m : u[j] = u[k] => j = k
      /\ \A t \in Cells : (\E k \in 1 .. m : t = u[k]) <=> (t # q[i] /\ \E k \in 1 .. n : t = q[k])
  <2>1. n = m + 1
    BY <1>0
  <2> HIDE DEF u
  <2>2. /\ m \in Nat /\ u \in [1 .. m -> Cells]
        /\ \A k \in 1 .. m : u[k] = IF k < i THEN q[k] ELSE q[k + 1]
        /\ \A j, k \in 1 .. m : u[j] = u[k] => j = k
        /\ \A t \in Cells :
             (\E k \in 1 .. m : t = u[k]) <=> (t # q[i] /\ \E k \in 1 .. n : t = q[k])
    <3>1. n - 1 \in Nat /\ LeavesOut(q, n, i, u)
      BY <1>0, AfterLeavingFacts DEF u
    <3> QED
      BY <3>1, Zenon DEF LeavesOut
  <2> QED
    BY <2>1, <2>2, Zenon
<1>2. y = IF i = n THEN NULL ELSE q[i + 1]
  BY DEF Linked
<1>3. PrevRight(s, task)
  BY DEF Removed
<1>4. x = IF i = 1 THEN NULL ELSE q[i - 1]
  <2>1. i > 1 => x # NULL
    BY DEF Linked, PrevBehind
  <2>2. ASSUME x # NULL PROVE i > 1 /\ x = q[i - 1]
    <3>1. x \in s.alloc /\ s.cell[x].next = q[i] /\ x \in Cells
      BY <1>3, <2>2 DEF PrevRight, ListState
    <3>2. PICK k \in 1 .. n : x = q[k]
      BY <3>1 DEF Linked
    <3>3. q[i] = IF k = n THEN NULL ELSE q[k + 1]
      BY <3>1, <3>2 DEF Linked
    <3>4. k # n /\ k + 1 \in 1 .. n
      BY <1>0, <3>3
    <3>5. i = k + 1
      BY <1>0, <3>3, <3>4
    <3> QED
      BY <1>0, <3>2, <3>5
  <2> QED
    BY <1>0, <2>1, <2>2
<1> HIDE DEF u, m, task, x, y
<1>5. /\ r.alloc = s.alloc \ {task}
      /\ r.head = IF task = s.head THEN y ELSE s.head
      /\ r.tail = IF task = s.tail THEN x ELSE s.tail
      /\ \A t \in Cells :
           /\ r.cell[t].next = IF t = x THEN y ELSE s.cell[t].next
           /\ r.cell[t].prev = s.cell[t].prev
  BY DEF Removed, task, x, y
<1>6. \A t \in Cells : t \in r.alloc <=> \E k \in 1 .. m : t = u[k]
  <2>1. \A t \in Cells : t \in s.alloc <=> \E k \in 1 .. n : t = q[k]
    BY DEF Linked
  <2>2. \A t \in Cells : t \in r.alloc <=> (t # q[i] /\ t \in s.alloc)
    BY <1>5 DEF task
  <2> QED
    BY <1>1, <2>1, <2>2, Zenon
<1>7. /\ s.head = q[1] /\ s.tail = q[n] /\ (task = q[1] <=> i = 1) /\ (task = q[n] <=> i = n)
  <2>1. n # 0 /\ 1 \in 1 .. n /\ n \in 1 .. n
    BY <1>0
  <2> QED
    BY <1>0, <2>1 DEF Linked, task
<1>8. r.head = IF m = 0 THEN NULL ELSE u[1]
  <2>1. CASE m = 0
    BY <1>0, <1>1, <1>2, <1>5, <1>7, <2>1
  <2>2. CASE m # 0
    <3>1. 1 \in 1 .. m /\ (1 < i <=> i # 1)
      BY <1>0, <1>1, <2>2
    <3>2. i = 1 => i # n
      BY <1>1, <2>2
    <3> QED
      BY <1>0, <1>1, <1>2, <1>5, <1>7, <2>2, <3>1, <3>2
  <2> QED
    BY <2>1, <2>2
<1>9. r.tail = IF m = 0 THEN NULL ELSE u[m]
  <2>1. CASE m = 0
    BY <1>0, <1>1, <1>4, <1>5, <1>7, <2>1
  <2>2. CASE m # 0
    <3>1. m \in 1 .. m /\ (m < i <=> i = n) /\ n - 1 = m
      BY <1>0, <1>1, <2>2
    <3>2. i = n => i # 1
      BY <1>1, <2>2
    <3> QED
      BY <1>0, <1>1, <1>4, <1>5, <1>7, <2>2, <3>1, <3>2
  <2> QED
    BY <2>1, <2>2
<1>10. ASSUME NEW k \in 1 .. m PROVE r.cell[u[k]].next = IF k = m THEN NULL ELSE u[k + 1]
  <2>k. k \in Nat /\ k >= 1 /\ k <= m
    BY <1>1
  <2>1. CASE k < i
    <3>1. u[k] = q[k] /\ k \in 1 .. n /\ q[k] \in Cells /\ k # n
      BY <1>0, <1>1, <2>k, <2>1
    <3>2. i # 1 /\ i - 1 \in 1 .. n
      BY <1>0, <2>k, <2>1
    <3>3. q[k] = x <=> k = i - 1
      BY <1>0, <1>4, <3>1, <3>2
    <3>4. s.cell[q[k]].next = q[k + 1]
      BY <3>1 DEF Linked
    <3>5. CASE k = i - 1
      <4>1. r.cell[u[k]].next = IF i = n THEN NULL ELSE q[i + 1]
        BY <1>2, <1>5, <3>1, <3>3, <3>5
      <4>2. i = n <=> k = m
        BY <1>0, <1>1, <3>5
      <4>3. k # m => u[k + 1] = q[i + 1]
        <5> SUFFICES ASSUME k # m PROVE u[k + 1] = q[i + 1]
          OBVIOUS
        <5>1. k + 1 \in 1 .. m /\ k + 1 = i /\ ~(k + 1 < i)
          BY <1>0, <1>1, <2>k, <3>5
        <5> QED
          BY <1>1, <5>1
      <4> QED
        BY <4>1, <4>2, <4>3
    <3>6. CASE k # i - 1
      <4>1. k + 1 < i /\ k # m /\ k + 1 \in 1 .. m
        BY <1>0, <1>1, <2>k, <2>1, <3>6
      <4> QED
        BY <1>1, <1>5, <3>1, <3>3, <3>4, <3>6, <4>1
    <3> QED
      BY <3>5, <3>6
  <2>2. CASE ~(k < i)
    <3>1. /\ u[k] = q[k + 1] /\ k + 1 \in 1 .. n /\ q[k + 1] \in Cells
          /\ (k + 1 = n <=> k = m) /\ (i # 1 => i - 1 \in 1 .. n /\ i - 1 # k + 1)
      BY <1>0, <1>1, <2>k, <2>2
    <3>2. q[k + 1] # x
      BY <1>0, <1>4, <3>1
    <3>3. r.cell[u[k]].next = IF k = m THEN NULL ELSE q[(k + 1) + 1]
      BY <1>5, <3>1, <3>2 DEF Linked
    <3>4. k # m => u[k + 1] = q[(k + 1) + 1]
      <4> SUFFICES ASSUME k # m PROVE u[k + 1] = q[(k + 1) + 1]
        OBVIOUS
      <4>1. k + 1 \in 1 .. m /\ ~(k + 1 < i)
        BY <1>0, <1>1, <2>k, <2>2
      <4> QED
        BY <1>1, <4>1
    <3> QED
      BY <3>3, <3>4
  <2> QED
    BY <2>1, <2>2
<1>11. ASSUME NEW k \in 1 .. m PROVE PrevBehind(r, u, k)
  <2>k. k \in Nat /\ k >= 1 /\ k <= m
    BY <1>1
  <2>1. CASE k < i
    <3>1. u[k] = q[k] /\ k \in 1 .. n /\ q[k] \in Cells
      BY <1>0, <1>1, <2>k, <2>1
    <3>2. PrevBehind(s, q, k) /\ r.cell[u[k]].prev = s.cell[q[k]].prev
      BY <1>5, <3>1 DEF Linked
    <3>3. \A j \in 1 .. k : u[j] = q[j]
      BY <1>0, <1>1, <2>k, <2>1
    <3> QED
      BY <3>2, <3>3 DEF PrevBehind
  <2>2. CASE ~(k < i)
    <3>1. u[k] = q[k + 1] /\ k + 1 \in 1 .. n /\ q[k + 1] \in Cells /\ k + 1 > 1
      BY <1>0, <1>1, <2>k, <2>2
    <3>2. /\ r.cell[u[k]].prev = s.cell[q[k + 1]].prev
          /\ PrevBehind(s, q, k + 1)
      BY <1>5, <3>1 DEF Linked
    <3>3. /\ r.cell[u[k]].prev # NULL
          /\ \A j \in 1 .. k + 1 : r.cell[u[k]].prev = q[j] => j = (k + 1) - 1
      BY <3>1, <3>2 DEF PrevBehind
    <3>4. ASSUME NEW j \in 1 .. k, r.cell[u[k]].prev = u[j] PROVE j = k - 1
      <4>0. j \in 1 .. m /\ j \in Nat /\ j <= k
        BY <1>1, <2>k
      <4>1. CASE j < i
        <5>1. j \in 1 .. k + 1 /\ r.cell[u[k]].prev = q[j]
          BY <1>1, <2>k, <3>4, <4>0, <4>1
        <5>2. j = (k + 1) - 1
          BY <3>3, <5>1
        <5> QED
          BY <1>0, <2>k, <2>2, <4>1, <5>2
      <4>2. CASE ~(j < i)
        <5>1. j + 1 \in 1 .. k + 1 /\ r.cell[u[k]].prev = q[j + 1]
          BY <1>1, <2>k, <3>4, <4>0, <4>2
        <5>2. j + 1 = (k + 1) - 1
          BY <3>3, <5>1
        <5> QED
          BY <2>k, <4>0, <5>2
      <4> QED
        BY <4>1, <4>2
    <3> QED
      BY <3>3, <3>4 DEF PrevBehind
  <2> QED
    BY <2>1, <2>2
<1>12. Linked(r, m, u)
  BY <1>1, <1>6, <1>8, <1>9, <1>10, <1>11 DEF Linked
<1> QED
  BY <1>12 DEF u, m

\* Which task runs does not matter for the links.
LEMMA LinkedSame ==
    ASSUME NEW s, NEW r, NEW n, NEW q, Linked(s, n, q),
           r.alloc = s.alloc, r.head = s.head, r.tail = s.tail, r.cell = s.cell
    PROVE  Linked(r, n, q)
  BY DEF Linked, PrevBehind

\* The place behind i in a rotation of n.
Behind(n, i) == IF i = n THEN 1 ELSE i + 1

\* In a list that is in order every task has a successor in the rotation.
LEMMA LinkedNext ==
    ASSUME NEW s \in ListState, NEW n, NEW q, Linked(s, n, q),
           NEW i \in 1 .. n, s.current = q[i]
    PROVE  /\ task_get_next(s) = q[Behind(n, i)] /\ Behind(n, i) \in 1 .. n
           /\ task_get_next(s) \in s.alloc /\ task_get_next(s) # NULL
<1>1. n \in Nat /\ NULL \notin Cells /\ \A j \in 1 .. n : q[j] \in s.alloc /\ q[j] \in Cells
  BY CellsAssumption DEF Linked
<1>2. s.cell[s.current].next = IF i = n THEN NULL ELSE q[i + 1]
  BY DEF Linked
<1>3. s.head = q[1] /\ 1 \in 1 .. n
  BY <1>1 DEF Linked
<1>4. i # n => i + 1 \in 1 .. n
  BY <1>1
<1>5. task_get_next(s) = q[Behind(n, i)] /\ Behind(n, i) \in 1 .. n
  BY <1>1, <1>2, <1>3, <1>4 DEF task_get_next, Behind
<1> QED
  BY <1>1, <1>5

\* The empty list is in order.
LEMMA EmptyLinked == Linked(EmptyList, 0, [i \in 1 .. 0 |-> NULL])
  BY EmptyListFacts DEF Linked

-----------------------------------------------------------------------------
\* The next pointers lead from the head through q[1], ..., q[n] and then nowhere.
Walks(s, n, q) ==
    /\ n \in Nat /\ q \in [1 .. n -> Cells]
    /\ \A i, j \in 1 .. n : q[i] = q[j] => i = j
    /\ s.head = IF n = 0 THEN NULL ELSE q[1]
    /\ \A i \in 1 .. n - 1 : s.cell[q[i]].next = q[i + 1]
    /\ n # 0 => s.cell[q[n]].next = NULL

\* The first k elements of q.
Prefix(q, k) == [i \in 1 .. k |-> q[i]]

\* One more element.
LEMMA PrefixAppend ==
    ASSUME NEW n \in Nat, NEW q \in [1 .. n -> Cells], NEW k \in 0 .. n
    PROVE  /\ Prefix(q, k) \in Seq(Cells) /\ Len(Prefix(q, k)) = k
           /\ k < n => Append(Prefix(q, k), q[k + 1]) = Prefix(q, k + 1)
           /\ k = n => Prefix(q, k) = q
           /\ Prefix(q, 0) = << >>
           /\ \A i \in 1 .. k : Prefix(q, k)[i] = q[i]
<1>1. Prefix(q, k) \in [1 .. k -> Cells] /\ \A i \in 1 .. k : Prefix(q, k)[i] = q[i]
  BY DEF Prefix
<1>2. Prefix(q, k) \in Seq(Cells) /\ Len(Prefix(q, k)) = k
  BY <1>1, IsASeq, LenProperties
<1>3. ASSUME k < n PROVE Append(Prefix(q, k), q[k + 1]) = Prefix(q, k + 1)
  <2>1. k + 1 \in 1 .. n /\ q[k + 1] \in Cells
    BY <1>3
  <2> DEFINE a == Append(Prefix(q, k), q[k + 1])
  <2>2. a \in Seq(Cells) /\ Len(a) = k + 1 /\ a[k + 1] = q[k + 1]
        /\ \A i \in 1 .. k : a[i] = Prefix(q, k)[i]
    BY <1>2, <2>1, AppendProperties
  <2>3. a \in [1 .. k + 1 -> Cells]
    BY <2>2, LenProperties
  <2> HIDE DEF a
  <2>4. \A i \in 1 .. k + 1 : a[i] = q[i]
    BY <1>1, <2>2
  <2>5. a = Prefix(q, k + 1)
    BY <2>3, <2>4 DEF Prefix
  <2> QED
    BY <2>5 DEF a
<1>4. k = n => Prefix(q, k) = q
  BY DEF Prefix
<1>5. Prefix(q, 0) = << >>
  BY DEF Prefix
<1> QED
  BY <1>1, <1>2, <1>3, <1>4, <1>5

\* The next stage of the walk.
Further(s, w) ==
    LET x == IF w = << >> THEN NULL ELSE s.cell[w[Len(w)]].next
    IN  IF x = NULL \/ \E k \in 1 .. Len(w) : w[k] = x THEN w ELSE Append(w, x)

Shorter(m, n) == IF m < n THEN m ELSE n

\* A walk that has seen the first k tasks sees one more, unless it has seen all.
LEMMA FurtherIs ==
    ASSUME NEW s, NEW n, NEW q, Walks(s, n, q), NEW k \in Nat, k # 0
    PROVE  Further(s, Prefix(q, Shorter(k, n))) = Prefix(q, Shorter(k + 1, n))
<1>0. n \in Nat /\ q \in [1 .. n -> Cells] /\ NULL \notin Cells
  BY CellsAssumption DEF Walks
<1>1. CASE n = 0
  <2>1. Shorter(k, n) = 0 /\ Shorter(k + 1, n) = 0
    BY <1>1 DEF Shorter
  <2>2. Prefix(q, 0) = << >>
    BY <1>0, PrefixAppend
  <2> QED
    BY <2>1, <2>2 DEF Further
<1>2. CASE n # 0
  <2> DEFINE m == Shorter(k, n)
             w == Prefix(q, m)
  <2>1. m \in 1 .. n /\ m \in 0 .. n /\ m \in Nat
    BY <1>0, <1>2 DEF Shorter
  <2> HIDE DEF m
  <2>2. /\ w \in Seq(Cells) /\ Len(w) = m
        /\ m < n => Append(w, q[m + 1]) = Prefix(q, m + 1)
        /\ m = n => w = q
        /\ \A i \in 1 .. m : w[i] = q[i]
    BY <1>0, <2>1, PrefixAppend
  <2>3. w # << >> /\ w[Len(w)] = q[m]
    BY <2>1, <2>2
  <2> HIDE DEF w
  <2> DEFINE x == s.cell[q[m]].next
  <2>4. Further(s, w) = IF x = NULL \/ \E j \in 1 .. m : w[j] = x THEN w ELSE Append(w, x)
    BY <2>2, <2>3, Zenon DEF Further
  <2>5. CASE m = n
    <3>1. x = NULL \/ \E j \in 1 .. m : w[j] = x
      BY <1>2, <2>2, <2>5 DEF Walks
    <3>2. Shorter(k + 1, n) = m
      BY <1>0, <2>5 DEF Shorter, m
    <3> QED
      BY <2>4, <3>1, <3>2 DEF w, m
  <2>6. CASE m # n
    <3>1. m < n /\ m \in 1 .. n - 1 /\ m + 1 \in 1 .. n /\ k = m /\ Shorter(k + 1, n) = m + 1
      BY <1>0, <2>1, <2>6 DEF Shorter, m
    <3>2. x = q[m + 1] /\ x # NULL
      BY <1>0, <3>1 DEF Walks
    <3>3. \A j \in 1 .. m : w[j] # x
      <4> SUFFICES ASSUME NEW j \in 1 .. m, w[j] = x PROVE FALSE
        OBVIOUS
      <4>1. j \in 1 .. n /\ q[j] = q[m + 1] /\ j # m + 1
        <5> HIDE DEF x
        <5>1. j \in 1 .. n /\ j # m + 1
          BY <1>0, <2>1, <3>1
        <5> QED
          BY <2>2, <3>2, <5>1
      <4> QED
        BY <3>1, <4>1 DEF Walks
    <3>4. Further(s, w) = Prefix(q, m + 1)
      BY <2>2, <2>4, <3>1, <3>2, <3>3
    <3> QED
      BY <3>1, <3>4 DEF w, m
  <2> QED
    BY <2>5, <2>6
<1> QED
  BY <1>1, <1>2

\* Chain walks exactly through q.
LEMMA ChainIs ==
    ASSUME NEW s, NEW n, NEW q, Walks(s, n, q)
    PROVE  Chain(s) = q
<1> DEFINE c == Cardinality(Cells)
           first == IF s.head = NULL THEN << >> ELSE <<s.head>>
           body(f) == [k \in 0 .. c |-> IF k = 0 THEN first ELSE Further(s, f[k - 1])]
           walk == CHOOSE f : f = body(f)
<1>0. n \in Nat /\ q \in [1 .. n -> Cells] /\ NULL \notin Cells
  BY CellsAssumption DEF Walks
<1>1. c \in Nat /\ n <= c
  <2>1. c \in Nat
    BY MemoryAssumption, FS_CardinalityType
  <2>2. q \in Injection(1 .. n, Cells)
    BY <1>0 DEF Walks, Injection, IsInjective
  <2>3. Cardinality(1 .. n) <= c
    BY <2>2, MemoryAssumption, FS_Injection
  <2>4. Cardinality(1 .. n) = n
    BY <1>0, FS_Interval
  <2> QED
    BY <2>1, <2>3, <2>4
<1>2. Chain(s) = walk[c]
  BY Zenon DEF Chain, Further
<1> HIDE DEF c
<1> DEFINE known == [k \in 0 .. c |-> Prefix(q, Shorter(k + 1, n))]
<1>3. first = Prefix(q, Shorter(1, n))
  <2>1. CASE n = 0
    <3>1. first = << >> /\ Shorter(1, n) = 0 /\ 0 \in 0 .. n
      BY <2>1 DEF Walks, Shorter
    <3>2. Prefix(q, 0) = << >>
      BY <1>0, <3>1, PrefixAppend
    <3> QED
      BY <3>1, <3>2
  <2>2. CASE n # 0
    <3>1. first = <<q[1]>> /\ 1 \in 1 .. n /\ Shorter(1, n) = 1
      BY <1>0, <2>2 DEF Walks, Shorter
    <3>2. <<q[1]>> = Prefix(q, 1)
      BY <1>0 DEF Prefix
    <3> QED
      BY <3>1, <3>2
  <2> QED
    BY <2>1, <2>2
<1> HIDE DEF first
<1>4. \A k \in 1 .. c : Further(s, Prefix(q, Shorter(k, n))) = Prefix(q, Shorter(k + 1, n))
  BY <1>1, FurtherIs
<1>5. known = body(known)
  <2>1. ASSUME NEW k \in 0 .. c
        PROVE  known[k] = IF k = 0 THEN first ELSE Further(s, known[k - 1])
    <3>1. CASE k = 0
      BY <1>3, <3>1
    <3>2. CASE k # 0
      <4>1. k \in 1 .. c /\ k - 1 \in 0 .. c /\ (k - 1) + 1 = k
        BY <1>1, <3>2
      <4>2. known[k - 1] = Prefix(q, Shorter(k, n))
        BY <4>1
      <4> QED
        BY <1>4, <3>2, <4>1, <4>2
    <3> QED
      BY <3>1, <3>2
  <2> DEFINE other == body(known)
  <2>2. \A k \in 0 .. c : other[k] = known[k]
    BY <2>1
  <2> QED
    BY <2>2
<1> HIDE DEF known
<1>6. walk = body(walk)
  <2>1. \E f : f = body(f)
    BY <1>5
  <2> QED
    BY <2>1
<1> HIDE DEF walk
<1>7. /\ walk[0] = first
      /\ \A k \in 1 .. c : walk[k] = Further(s, walk[k - 1])
  <2>1. \A k \in 0 .. c : walk[k] = IF k = 0 THEN first ELSE Further(s, walk[k - 1])
    BY <1>6
  <2> QED
    BY <1>1, <2>1
<1> DEFINE P == {k \in 0 .. c : walk[k] = Prefix(q, Shorter(k + 1, n))}
<1>8. \A k \in 0 .. c : k \in P
  <2>1. 0 \in P
    BY <1>1, <1>3, <1>7
  <2>2. ASSUME NEW k \in 1 .. c, k - 1 \in P PROVE k \in P
    <3>1. (k - 1) + 1 = k /\ walk[k - 1] = Prefix(q, Shorter(k, n)) /\ k \in 0 .. c
      BY <1>1, <2>2
    <3> QED
      BY <1>4, <1>7, <3>1
  <2> HIDE DEF P
  <2> QED
    BY <1>1, <2>1, <2>2, UpTo
<1>9. walk[c] = Prefix(q, Shorter(c + 1, n)) /\ Shorter(c + 1, n) = n
  BY <1>0, <1>1, <1>8 DEF Shorter
<1> QED
  BY <1>0, <1>2, <1>9, PrefixAppend

-----------------------------------------------------------------------------
\* Which task runs does not matter for the chain.
LEMMA WalksSame ==
    ASSUME NEW s, NEW r, NEW n, NEW q, Walks(s, n, q), r.head = s.head, r.cell = s.cell
    PROVE  Walks(r, n, q)
  BY DEF Walks

\* The chain of a list that is in order.
LEMMA LinkedWalks ==
    ASSUME NEW s, NEW n, NEW q, Linked(s, n, q)
    PROVE  Walks(s, n, q)
<1>1. n \in Nat
  BY DEF Linked
<1>2. \A i \in 1 .. n - 1 : i \in 1 .. n /\ i # n
  BY <1>1
<1>3. \A i \in 1 .. n - 1 : s.cell[q[i]].next = q[i + 1]
  BY <1>2 DEF Linked
<1>4. n # 0 => s.cell[q[n]].next = NULL
  BY <1>1 DEF Linked
<1> QED
  BY <1>3, <1>4 DEF Linked, Walks


-----------------------------------------------------------------------------
\* The steps of the rotation.  A task is appended.
LEMMA ArriveStep ==
    ASSUME NEW n, NEW q, NEW u, NEW task \in Cells, Walks(tasks, n, q), Walks(tasks', n + 1, u),
           \A i \in 1 .. n : u[i] = q[i] /\ q[i] # task, u[n + 1] = task,
           tasks'.current = tasks.current \/ tasks'.current = task,
           tasks'.current # NULL
    PROVE  RR!Arrive(task)
<1>1. n \in Nat /\ q \in [1 .. n -> Cells] /\ u \in [1 .. n + 1 -> Cells]
  BY DEF Walks
<1>2. Chain(tasks) = q /\ Chain(tasks') = u
  BY ChainIs
<1>3. q \in Seq(Cells) /\ Len(q) = n
  BY <1>1, IsASeq, LenProperties
<1>4. Append(q, task) = u
  <2> DEFINE a == Append(q, task)
  <2>1. a \in Seq(Cells) /\ Len(a) = n + 1 /\ a[n + 1] = task /\ \A i \in 1 .. n : a[i] = q[i]
    BY <1>3, AppendProperties
  <2>2. a \in [1 .. n + 1 -> Cells]
    BY <2>1, LenProperties
  <2> HIDE DEF a
  <2>3. \A i \in 1 .. n + 1 : a[i] = u[i]
    BY <1>1, <2>1
  <2>4. a = u
    BY <1>1, <2>2, <2>3
  <2> QED
    BY <2>4 DEF a
<1>5. task \notin RR!Members(q)
  BY <1>3 DEF RR!Members
<1> QED
  BY <1>2, <1>4, <1>5 DEF RR!Arrive

\* Where a task stands.
LEMMA PositionIs ==
    ASSUME NEW s, NEW n, NEW q, Walks(s, n, q), NEW i \in 1 .. n
    PROVE  /\ q \in Seq(Cells) /\ Len(q) = n
           /\ RR!Position(q, q[i]) = i /\ q[i] \in RR!Members(q)
<1>1. n \in Nat /\ q \in [1 .. n -> Cells]
  BY DEF Walks
<1>2. q \in Seq(Cells) /\ Len(q) = n
  BY <1>1, IsASeq, LenProperties
<1>3. \A k \in 1 .. n : q[k] = q[i] => k = i
  BY DEF Walks
<1> QED
  BY <1>2, <1>3 DEF RR!Position, RR!Members

\* The turn passes on.
LEMMA TickStep ==
    ASSUME NEW n, NEW q, NEW i \in 1 .. n, Walks(tasks, n, q), tasks.current = q[i],
           tasks'.head = tasks.head, tasks'.cell = tasks.cell,
           tasks'.current = IF i = n THEN q[1] ELSE q[i + 1]
    PROVE  RR!Tick
<1>1. Walks(tasks', n, q)
  BY WalksSame
<1>2. Chain(tasks) = q /\ Chain(tasks') = q
  BY <1>1, ChainIs
<1>3. Len(q) = n /\ RR!Position(q, q[i]) = i /\ q[i] \in RR!Members(q)
  BY PositionIs
<1>4. RR!Successor(q, tasks.current) = tasks'.current
  BY <1>3 DEF RR!Successor
<1> QED
  BY <1>2, <1>3, <1>4 DEF RR!Tick

\* What ListInOrder says of such a list.
LEMMA LinkedInOrder ==
    ASSUME NEW s \in ListState, NEW n, NEW q, Linked(s, n, q)
    PROVE  InOrder(s, Chain(s))
<1>1. Chain(s) = q
  BY LinkedWalks, ChainIs
<1>2. n \in Nat /\ q \in [1 .. n -> Cells] /\ s.alloc \subseteq Cells
  BY DEF Linked, ListState
<1>3. q \in Seq(Cells) /\ Len(q) = n
  BY <1>2, IsASeq, LenProperties
<1>4. q = << >> <=> n = 0
  BY <1>3
<1>5. s.alloc = {q[k] : k \in 1 .. n}
  BY <1>2 DEF Linked
<1>6. InOrder(s, q)
  BY <1>3, <1>4, <1>5 DEF Linked, PrevBehind, InOrder
<1> QED
  BY <1>1, <1>6

\* Where the successor of task number i stands after it has left.
Heir(n, i) == IF i = n THEN 1 ELSE i

\* The running task leaves: the task behind it is passed over.
LEMMA LeaveStep ==
    ASSUME NEW n, NEW q, NEW i \in 1 .. n, Walks(tasks, n, q), tasks.current = q[i],
           Walks(tasks', n - 1, AfterLeaving(q, n, i)),
           IF n = 1 THEN tasks'.current = NULL
           ELSE tasks'.current = AfterLeaving(q, n, i)[Behind(n - 1, Heir(n, i))]
    PROVE  RR!Leave
<1> DEFINE u == AfterLeaving(q, n, i)
<1>1. Chain(tasks) = q /\ Chain(tasks') = u
  BY ChainIs
<1>2. Len(q) = n /\ RR!Position(q, q[i]) = i /\ q[i] \in RR!Members(q)
  BY PositionIs
<1>n. n \in Nat /\ q \in [1 .. n -> Cells] /\ \A j, k \in 1 .. n : q[j] = q[k] => j = k
  BY DEF Walks
<1>3. RR!Without(q, tasks.current) = u
  BY <1>2 DEF RR!Without, AfterLeaving
<1>4. CASE n = 1
  <2>1. u = << >>
    BY <1>4 DEF AfterLeaving
  <2> QED
    BY <1>1, <1>2, <1>3, <1>4, <2>1 DEF RR!Leave
<1>5. CASE n # 1
  <2>1. n - 1 \in Nat /\ LeavesOut(q, n, i, u)
    BY <1>n, AfterLeavingFacts
  <2> HIDE DEF u
  <2> DEFINE j == Heir(n, i)
  <2>2. j \in 1 .. n - 1 /\ n - 1 # 0
    BY <1>n, <1>5 DEF Heir
  <2>3. RR!Successor(q, q[i]) = u[j]
    <3>1. RR!Successor(q, q[i]) = IF i = n THEN q[1] ELSE q[i + 1]
      BY <1>2 DEF RR!Successor
    <3>2. CASE i = n
      <4>1. j = 1 /\ 1 < i
        BY <1>n, <1>5, <3>2 DEF Heir
      <4> QED
        BY <2>1, <2>2, <3>1, <3>2, <4>1 DEF LeavesOut
    <3>3. CASE i # n
      <4>1. j = i /\ ~(j < i)
        BY <1>n, <3>3 DEF Heir
      <4> QED
        BY <2>1, <2>2, <3>1, <3>3, <4>1 DEF LeavesOut
    <3> QED
      BY <3>2, <3>3
  <2> HIDE DEF j
  <2>4. Len(u) = n - 1 /\ RR!Position(u, u[j]) = j /\ u \in Seq(Cells)
    BY <2>2, PositionIs DEF u
  <2>5. RR!Successor(u, u[j]) = u[Behind(n - 1, j)]
    BY <2>2, <2>4 DEF RR!Successor, Behind
  <2>6. u # << >>
    BY <2>2, <2>4
  <2>7. tasks'.current = u[Behind(n - 1, j)]
    BY <1>5 DEF u, j
  <2>8. tasks'.current = RR!Successor(u, RR!Successor(q, tasks.current))
    BY <2>3, <2>5, <2>7
  <2> QED
    BY <1>1, <1>2, <1>3, <2>6, <2>8 DEF RR!Leave
<1> QED
  BY <1>4, <1>5

\* Steps in which the rotation stands still.
StandsStill == Chain(tasks') = Chain(tasks) /\ tasks'.current = tasks.current

\* The same tasks in the same order with the same one running.
LEMMA StandsStep ==
    ASSUME NEW n, NEW q, Walks(tasks, n, q), Walks(tasks', n, q), tasks'.current = tasks.current
    PROVE  StandsStill
  BY ChainIs DEF StandsStill

\* The chain ends with the tail and has only allocated tasks.
Orderly(s, n, q) ==
    /\ Walks(s, n, q)
    /\ n # 0 => s.tail = q[n]
    /\ \A i \in 1 .. n : q[i] \in s.alloc

\* After the step the list is s, and task may be the current one.
Becomes(s, task) ==
    /\ tasks'.head = s.head /\ tasks'.cell = s.cell
    /\ tasks'.current = s.current \/ tasks'.current = task

\* The modes in which a task can be loaded.
Loading == mode \in {"load blank", "load shell", "user"}

\* What a load does to a list that is in order.
LEMMA LoadedStep ==
    ASSUME TInv, Loading, NEW task \in FreshCells, NEW p, NEW s,
           Appended(tasks, task, p, s), Becomes(s, task), NEW n, NEW q, Orderly(tasks, n, q)
    PROVE  RR!Arrive(task)
<1> DEFINE u == [i \in 1 .. n + 1 |-> IF i = n + 1 THEN task ELSE q[i]]
<1>0. /\ n \in Nat /\ q \in [1 .. n -> Cells] /\ NULL \notin Cells /\ task \in Cells \ tasks.alloc
      /\ tasks \in ListState /\ tasks.alloc \subseteq Cells
  BY CellsAssumption DEF Orderly, Walks, FreshCells, TInv, SchedulerType, ListState
<1>r. /\ Walks(tasks, n, q)
      /\ n # 0 => tasks.tail = q[n]
      /\ \A i \in 1 .. n : q[i] \in tasks.alloc
  BY DEF Orderly
<1>1. /\ u \in [1 .. n + 1 -> Cells] /\ u[n + 1] = task
      /\ \A i \in 1 .. n : u[i] = q[i] /\ q[i] # task /\ q[i] \in Cells
      /\ \A i \in 1 .. n + 1 : i \in 1 .. n \/ i = n + 1
  BY <1>0, <1>r
<1> HIDE DEF u
<1>2. tasks.head = NULL <=> n = 0
  BY <1>0, <1>r DEF Walks
<1>3. s.head = u[1]
  BY <1>0, <1>r, <1>1, <1>2 DEF Walks, Appended
<1>4. s.cell[u[n + 1]].next = NULL
  <2>1. n # 0 => tasks.tail # task
    BY <1>0, <1>r, <1>1
  <2> QED
    BY <1>1, <1>2, <2>1 DEF Appended
<1>5. \A i, j \in 1 .. n + 1 : u[i] = u[j] => i = j
  BY <1>r, <1>1 DEF Walks
<1>6. ASSUME NEW i \in 1 .. n PROVE s.cell[u[i]].next = u[i + 1]
  <2>1. n # 0 /\ n \in 1 .. n /\ tasks.tail = q[n] /\ tasks.head # NULL
    BY <1>0, <1>r, <1>2
  <2>2. q[i] \in Cells \ {task}
    BY <1>1
  <2>3. s.cell[q[i]].next = IF q[i] = q[n] THEN task ELSE tasks.cell[q[i]].next
    BY <2>1, <2>2 DEF Appended
  <2>4. CASE i = n
    BY <1>1, <2>3, <2>4
  <2>5. CASE i # n
    <3>1. i \in 1 .. n - 1 /\ i + 1 \in 1 .. n
      BY <1>0, <2>5
    <3>2. q[i] # q[n]
      BY <1>r, <2>1, <2>5 DEF Walks
    <3>3. tasks.cell[q[i]].next = q[i + 1]
      BY <1>r, <3>1 DEF Walks
    <3> QED
      BY <1>1, <2>3, <3>1, <3>2, <3>3
  <2> QED
    BY <2>4, <2>5
<1>7. Walks(tasks', n + 1, u)
  <2>1. (n + 1) - 1 = n /\ n + 1 # 0 /\ n + 1 \in Nat
    BY <1>0
  <2> QED
    BY <1>1, <1>3, <1>4, <1>5, <1>6, <2>1 DEF Walks, Becomes
<1>8. /\ tasks'.current = tasks.current \/ tasks'.current = task
      /\ tasks'.current # NULL
  <2>1. tasks.head # NULL => tasks.current # NULL
    BY <1>0, EmptyListFacts DEF TInv, Loading
  <2>2. s.current = IF tasks.head = NULL THEN task ELSE tasks.current
    BY DEF Appended
  <2> QED
    BY <1>0, <2>1, <2>2 DEF Becomes
<1> QED
  BY <1>0, <1>r, <1>1, <1>7, <1>8, ArriveStep

\* The first task of all starts.
LEMMA StartStep ==
    ASSUME TInv, task_run_first_ever_task, NEW n, NEW q, Walks(tasks, n, q)
    PROVE  RR!Start
<1>1. /\ tasks' = [tasks EXCEPT !.current = tasks.head] /\ tasks.head \in tasks.alloc
      /\ tasks \in ListState /\ tasks.head \in Pointers /\ NULL \notin tasks.alloc
  BY CellsAssumption DEF TInv, SchedulerType, task_run_first_ever_task, ListState
<1>2. tasks'.current = tasks.head /\ tasks'.head = tasks.head /\ tasks'.cell = tasks.cell
  BY <1>1, CurrentSet
<1>3. Walks(tasks', n, q)
  BY <1>2, WalksSame
<1>4. Chain(tasks) = q /\ Chain(tasks') = q
  BY <1>3, ChainIs
<1>5. n \in Nat /\ n # 0 /\ tasks.head = q[1] /\ q \in [1 .. n -> Cells]
  BY <1>1 DEF Walks
<1>6. q # << >>
  BY <1>5
<1> QED
  BY <1>2, <1>4, <1>5, <1>6 DEF RR!Start

\* The timer: the turn passes to the next task.
LEMMA ClockStep ==
    ASSUME TInv, idt_clock, mode' # "wild", NEW n, NEW q, Walks(tasks, n, q),
           NEW i \in 1 .. n, tasks.current = q[i]
    PROVE  RR!Tick
<1>0. /\ tasks \in ListState /\ n \in Nat /\ q \in [1 .. n -> Cells] /\ NULL \notin Cells
      /\ task_next(tasks) /\ tasks.current \in tasks.alloc
  BY CellsAssumption DEF TInv, SchedulerType, Walks, idt_clock
<1>1. tasks'.head = tasks.head /\ tasks'.cell = tasks.cell
  BY <1>0, TaskNextEffect
<1>2. task_get_next(tasks) = IF i = n THEN q[1] ELSE q[i + 1]
  <2>1. CASE i = n
    <3>1. tasks.head = q[1]
      BY <1>0 DEF Walks
    <3>2. tasks.cell[q[n]].next = NULL
      BY <1>0 DEF Walks
    <3> QED
      BY <2>1, <3>1, <3>2 DEF task_get_next
  <2>2. CASE i # n
    <3>1. i \in 1 .. n - 1 /\ i + 1 \in 1 .. n
      BY <1>0, <2>2
    <3>2. tasks.cell[q[i]].next = q[i + 1] /\ q[i + 1] # NULL
      BY <1>0, <3>1 DEF Walks
    <3> QED
      BY <2>2, <3>2 DEF task_get_next
  <2> QED
    BY <2>1, <2>2
<1>3. task_get_next(tasks) # NULL
  <2>1. 1 \in 1 .. n /\ (i # n => i + 1 \in 1 .. n)
    BY <1>0
  <2> QED
    BY <1>0, <1>2, <2>1
<1>4. tasks'.current = task_get_next(tasks)
  BY <1>0, <1>3, TaskNextEffect
<1> QED
  BY <1>1, <1>2, <1>4, TickStep

\* The loads, up to what the list was before.
LEMMA LoadsArrive ==
    ASSUME TInv, NEW n, NEW q, Orderly(tasks, n, q),
           BootLoad \/ process_load_start \/ invoke_system_command_inject_fails
    PROVE  \E t \in Cells : RR!Arrive(t)
<1>1. FreeSlots # {} /\ Loading
  BY DEF BootLoad, process_load_start, invoke_system_command_inject_fails, Loading
<1>2. CASE BootLoad \/ invoke_system_command_inject_fails
  <2>1. PICK task \in FreshCells : process_load_switch(task)
    BY <1>2 DEF BootLoad, invoke_system_command_inject_fails
  <2>2. \E p : Appended(tasks, task, p, tasks')
    BY <1>1, <2>1, LoadEffect DEF process_load_switch
  <2>3. Becomes(tasks', task) /\ task \in Cells
    BY DEF Becomes, FreshCells
  <2> QED
    BY <1>1, <2>2, <2>3, LoadedStep
<1>3. CASE process_load_start
  <2>1. PICK task \in FreshCells :
          tasks' = [task_new(tasks, task, process_get_free_slot) EXCEPT !.current = task]
    BY <1>3 DEF process_load_start
  <2> DEFINE s == task_new(tasks, task, process_get_free_slot)
  <2>2. PICK p \in Slots : Appended(tasks, task, p, s)
    BY <1>1, LoadEffect
  <2> HIDE DEF s
  <2>3. s \in ListState /\ task \in Pointers /\ task \in Cells
    BY <2>2 DEF Appended, FreshCells, Pointers
  <2>4. tasks' = [s EXCEPT !.current = task]
    BY <2>1 DEF s
  <2>5. tasks'.head = s.head /\ tasks'.cell = s.cell /\ tasks'.current = task
    BY <2>3, <2>4, CurrentSet
  <2>6. Becomes(s, task)
    BY <2>5 DEF Becomes
  <2> QED
    BY <1>1, <2>2, <2>3, <2>6, LoadedStep
<1> QED
  BY <1>2, <1>3


-----------------------------------------------------------------------------
\* What happens at an exit, unless the task leaves through a wrong prev.
Left(n, q, i) ==
    /\ tasks.current = q[i]
    /\ mode' # "wild"
    /\ Linked(tasks', n - 1, AfterLeaving(q, n, i))
    /\ IF n = 1 THEN tasks'.current = NULL
       ELSE tasks'.current = AfterLeaving(q, n, i)[Behind(n - 1, Heir(n, i))]

\* An exit takes the running task out, and the one behind it is passed over.
LEMMA ExitLinked ==
    ASSUME TInv, process_terminate_current, ~tasks'.stale, NEW n, NEW q, Linked(tasks, n, q)
    PROVE  \E i \in 1 .. n : Left(n, q, i)
<1>1. PICK s :
        /\ tasks.current \in tasks.alloc
        /\ Removed(tasks, tasks.current, s)
        /\ Agree(s, processes')
        /\ current_process' \in Slots
        /\ \/ tasks' = s /\ mode' = "panic" /\ s.alloc = {}
           \/ processes'[current_process'] # NULL /\ task_next(s)
  BY ExitEffect
<1>2. /\ tasks \in ListState /\ s \in ListState /\ tasks.alloc \subseteq Cells
      /\ s.alloc \subseteq Cells /\ NULL \notin Cells /\ n \in Nat /\ q \in [1 .. n -> Cells]
      /\ \A j, k \in 1 .. n : q[j] = q[k] => j = k
  BY <1>1, CellsAssumption DEF TInv, SchedulerType, Removed, ListState, Linked
<1>3. PICK i \in 1 .. n : tasks.current = q[i]
  BY <1>1, <1>2 DEF Linked
<1> DEFINE u == AfterLeaving(q, n, i)
<1>4. s.stale = tasks'.stale
  BY <1>1, <1>2, TaskNextEffect
<1>5. Linked(s, n - 1, u)
  BY <1>1, <1>2, <1>3, <1>4, LinkedRemove
<1>6. n - 1 \in Nat /\ LeavesOut(q, n, i, u)
  BY <1>2, AfterLeavingFacts
<1>7. s.head = (IF n - 1 = 0 THEN NULL ELSE u[1]) /\ u \in [1 .. n - 1 -> Cells]
  BY <1>5, Zenon DEF Linked
<1>8. \A t \in Cells : t \in s.alloc <=> \E k \in 1 .. n - 1 : t = u[k]
  BY <1>5, Zenon DEF Linked
<1>9. s.current = IF i = n THEN s.head ELSE q[i + 1]
  <2>1. tasks.cell[q[i]].next = IF i = n THEN NULL ELSE q[i + 1]
    BY DEF Linked
  <2>2. i # n => i + 1 \in 1 .. n /\ q[i + 1] # NULL
    BY <1>2
  <2> QED
    BY <1>1, <1>3, <2>1, <2>2 DEF Removed
<1> HIDE DEF u
<1>10. CASE n = 1
  <2>1. s.alloc = {}
    <3>1. 1 .. n - 1 = {}
      BY <1>10
    <3> QED
      BY <1>2, <1>8, <3>1
  <2>2. tasks' = s /\ mode' = "panic"
    BY <1>1, <2>1 DEF Agree
  <2>3. s.current = NULL
    BY <1>7, <1>9, <1>10
  <2> QED
    BY <1>3, <1>5, <1>10, <2>2, <2>3 DEF Left, u
<1>11. CASE n # 1
  <2> DEFINE j == Heir(n, i)
  <2>1. j \in 1 .. n - 1 /\ n - 1 # 0
    BY <1>2, <1>11 DEF Heir
  <2>2. s.current = u[j]
    <3>1. CASE i = n
      <4>1. j = 1
        BY <3>1 DEF Heir
      <4> QED
        BY <1>7, <1>9, <2>1, <3>1, <4>1
    <3>2. CASE i # n
      <4>1. j = i /\ ~(j < i)
        BY <1>2, <3>2 DEF Heir
      <4> QED
        BY <1>6, <1>9, <2>1, <3>2, <4>1 DEF LeavesOut
    <3> QED
      BY <3>1, <3>2
  <2> HIDE DEF j
  <2>3. s.current \in s.alloc
    BY <1>7, <1>8, <2>1, <2>2
  <2>4. task_next(s)
    BY <1>1, <2>3
  <2>5. /\ task_get_next(s) = u[Behind(n - 1, j)]
        /\ task_get_next(s) \in s.alloc /\ task_get_next(s) # NULL
    BY <1>2, <1>5, <2>1, <2>2, LinkedNext DEF u
  <2>6. mode' = "user" /\ tasks'.current = u[Behind(n - 1, j)]
    <3>1. mode' = "user"
      BY <2>3, <2>4, <2>5 DEF task_next
    <3> QED
      BY <1>2, <2>4, <2>5, <3>1, TaskNextEffect
  <2>7. Linked(tasks', n - 1, u)
    <3>1. /\ tasks'.alloc = s.alloc /\ tasks'.head = s.head
          /\ tasks'.tail = s.tail /\ tasks'.cell = s.cell
      BY <1>2, <2>4, TaskNextEffect
    <3> QED
      BY <1>5, <3>1, LinkedSame DEF u
  <2>8. Left(n, q, i)
    BY <1>3, <1>11, <2>6, <2>7 DEF Left, u, j
  <2> QED
    BY <2>8
<1> QED
  BY <1>10, <1>11

\* A load that fails leaves the list as it was.
LEMMA MapFailsLinked ==
    ASSUME TInv, load_map_fails, ~tasks'.stale, NEW n, NEW q, Linked(tasks, n, q)
    PROVE  Linked(tasks', n, q)
<1>1. tasks \in ListState /\ n \in Nat /\ q \in [1 .. n -> Cells]
  BY DEF TInv, SchedulerType, Linked
<1>2. PICK s : \E task \in FreshCells, p \in Slots :
              Appended(tasks, task, p, s) /\ Removed(s, task, tasks')
  BY MapFailsEffect
<1>3. PICK task \in FreshCells, p \in Slots :
              Appended(tasks, task, p, s) /\ Removed(s, task, tasks')
  BY <1>2
<1> DEFINE m == n + 1
           u == [i \in 1 .. m |-> IF i = m THEN task ELSE q[i]]
<1>4. Linked(s, m, u)
  BY <1>1, <1>3, LinkedAppend DEF FreshCells
<1>5. m \in 1 .. m /\ u[m] = task /\ m - 1 = n /\ AfterLeaving(u, m, m) = q
  BY <1>1 DEF AfterLeaving
<1> HIDE DEF m, u
<1>6. Removed(s, u[m], tasks') /\ s \in ListState
  BY <1>3, <1>5 DEF Appended
<1>7. Linked(tasks', m - 1, AfterLeaving(u, m, m))
  BY <1>4, <1>5, <1>6, LinkedRemove
<1> QED
  BY <1>5, <1>7

\* What has been spoiled stays so.
LEMMA StaleStays ==
    ASSUME TInv, [Next]_vars, tasks.stale
    PROVE  tasks'.stale
<1>0. tasks \in ListState
  BY DEF TInv, SchedulerType
<1>1. CASE BootLoad \/ invoke_system_command_inject_fails
  <2>1. PICK task \in FreshCells : process_load_switch(task)
    BY <1>1 DEF BootLoad, invoke_system_command_inject_fails
  <2>2. FreeSlots # {}
    BY <1>1 DEF BootLoad, invoke_system_command_inject_fails
  <2>3. \E p : Appended(tasks, task, p, tasks')
    BY <2>1, <2>2, LoadEffect DEF process_load_switch
  <2> QED
    BY <2>3 DEF Appended
<1>2. CASE task_run_first_ever_task
  BY <1>0, <1>2 DEF task_run_first_ever_task, ListState
<1>3. CASE idt_clock
  BY <1>0, <1>3, TaskNextEffect DEF idt_clock
<1>4. CASE process_terminate_current
  <2>1. PICK s :
          /\ Removed(tasks, tasks.current, s)
          /\ tasks' = s \/ task_next(s)
    BY <1>4, ExitEffect
  <2>2. s \in ListState /\ s.stale
    BY <2>1 DEF Removed
  <2> QED
    BY <2>1, <2>2, TaskNextEffect
<1>5. CASE process_load_start
  <2>1. PICK task \in FreshCells :
          tasks' = [task_new(tasks, task, process_get_free_slot) EXCEPT !.current = task]
    BY <1>5 DEF process_load_start
  <2> DEFINE s == task_new(tasks, task, process_get_free_slot)
  <2>2. PICK p \in Slots : Appended(tasks, task, p, s)
    BY <1>5, LoadEffect DEF process_load_start
  <2>3. tasks' = [s EXCEPT !.current = task]
    BY <2>1
  <2> HIDE DEF s
  <2> QED
    BY <2>2, <2>3 DEF Appended, ListState
<1>6. CASE load_map_fails
  <2>1. PICK s : \E task \in FreshCells, p \in Slots :
                Appended(tasks, task, p, s) /\ Removed(s, task, tasks')
    BY <1>6, MapFailsEffect
  <2> QED
    BY <2>1 DEF Appended, Removed
<1>7. CASE BootFails \/ idt_zero \/ panic \/ NotFollowed \/ UNCHANGED vars
  BY <1>7 DEF BootFails, idt_zero, panic, NotFollowed, vars
<1> QED
  BY <1>1, <1>2, <1>3, <1>4, <1>5, <1>6, <1>7 DEF Next

\* Steps that append a task, up to current.
LEMMA AppendLinked ==
    ASSUME TInv, NEW n, NEW q, Linked(tasks, n, q),
           NEW task \in FreshCells, NEW p, NEW s, Appended(tasks, task, p, s),
           tasks'.alloc = s.alloc, tasks'.head = s.head,
           tasks'.tail = s.tail, tasks'.cell = s.cell
    PROVE  \E m, u : Linked(tasks', m, u)
<1>1. tasks \in ListState /\ task \in Cells \ tasks.alloc
  BY DEF TInv, SchedulerType, FreshCells
<1>2. Linked(s, n + 1, [i \in 1 .. n + 1 |-> IF i = n + 1 THEN task ELSE q[i]])
  BY <1>1, LinkedAppend
<1>3. Linked(tasks', n + 1, [i \in 1 .. n + 1 |-> IF i = n + 1 THEN task ELSE q[i]])
  BY <1>2, LinkedSame
<1> QED
  BY <1>3, Zenon

\* Every step keeps the invariant.
LEMMA NInvStep == NInv /\ [Next]_vars => NInv'
<1> SUFFICES ASSUME NInv, [Next]_vars PROVE NInv'
  OBVIOUS
<1>a. TInv' /\ TInv
  BY TInvStep DEF NInv
<1> SUFFICES ASSUME ~tasks'.stale
             PROVE  mode' # "wild" /\ \E m, u : Linked(tasks', m, u)
  BY <1>a DEF NInv
<1>b. tasks \in ListState /\ mode # "wild" /\ \E n, q : Linked(tasks, n, q)
  BY <1>a, StaleStays DEF NInv, TInv, SchedulerType
<1>c. PICK n, q : Linked(tasks, n, q)
  BY <1>b
<1>1. CASE BootLoad \/ invoke_system_command_inject_fails
  <2>1. PICK task \in FreshCells : process_load_switch(task)
    BY <1>1 DEF BootLoad, invoke_system_command_inject_fails
  <2>2. FreeSlots # {} /\ mode' # "wild"
    BY <1>1, <1>b DEF BootLoad, invoke_system_command_inject_fails
  <2>3. \E p : Appended(tasks, task, p, tasks')
    BY <1>a, <2>1, <2>2, LoadEffect DEF process_load_switch
  <2> QED
    BY <1>a, <1>c, <2>2, <2>3, AppendLinked
<1>2. CASE task_run_first_ever_task
  <2>1. tasks' = [tasks EXCEPT !.current = tasks.head] /\ mode' # "wild" /\ tasks.head \in Pointers
    BY <1>2, <1>b DEF task_run_first_ever_task, ListState
  <2>2. /\ tasks'.alloc = tasks.alloc /\ tasks'.head = tasks.head
        /\ tasks'.tail = tasks.tail /\ tasks'.cell = tasks.cell
    BY <1>b, <2>1, CurrentSet
  <2> QED
    BY <1>c, <2>1, <2>2, LinkedSame
<1>3. CASE idt_clock
  <2>1. task_next(tasks) /\ tasks.current \in tasks.alloc
    BY <1>3, <1>a DEF idt_clock, TInv
  <2>2. PICK i \in 1 .. n : tasks.current = q[i]
    BY <1>b, <1>c, <2>1 DEF Linked, ListState
  <2>3. task_get_next(tasks) \in tasks.alloc /\ task_get_next(tasks) # NULL
    BY <1>b, <1>c, <2>2, LinkedNext
  <2>4. mode' # "wild"
    BY <2>1, <2>3 DEF task_next
  <2>5. /\ tasks'.alloc = tasks.alloc /\ tasks'.head = tasks.head
        /\ tasks'.tail = tasks.tail /\ tasks'.cell = tasks.cell
    BY <1>b, <2>1, TaskNextEffect
  <2> QED
    BY <1>c, <2>4, <2>5, LinkedSame
<1>4. CASE process_terminate_current
  <2>1. \E i \in 1 .. n : Left(n, q, i)
    BY <1>4, <1>a, <1>c, ExitLinked
  <2> QED
    BY <2>1 DEF Left
<1>5. CASE process_load_start
  <2>1. PICK task \in FreshCells :
          tasks' = [task_new(tasks, task, process_get_free_slot) EXCEPT !.current = task]
    BY <1>5 DEF process_load_start
  <2> DEFINE s == task_new(tasks, task, process_get_free_slot)
  <2>2. PICK p \in Slots : Appended(tasks, task, p, s)
    BY <1>5, <1>a, LoadEffect DEF process_load_start
  <2> HIDE DEF s
  <2>3. s \in ListState /\ task \in Pointers
    BY <2>2 DEF Appended, FreshCells, Pointers
  <2>4. tasks' = [s EXCEPT !.current = task]
    BY <2>1 DEF s
  <2>5. /\ tasks'.alloc = s.alloc /\ tasks'.head = s.head
        /\ tasks'.tail = s.tail /\ tasks'.cell = s.cell
    BY <2>3, <2>4, CurrentSet
  <2> QED
    BY <1>5, <1>a, <1>b, <1>c, <2>2, <2>5, AppendLinked DEF process_load_start
<1>6. CASE load_map_fails
  <2>1. Linked(tasks', n, q)
    BY <1>6, <1>a, <1>c, MapFailsLinked
  <2>2. mode' # "wild"
    BY <1>6, <1>b DEF load_map_fails
  <2> QED
    BY <2>1, <2>2
<1>7. CASE BootFails \/ idt_zero \/ panic \/ NotFollowed \/ UNCHANGED vars
  BY <1>7, <1>b, <1>c DEF BootFails, idt_zero, panic, NotFollowed, vars
<1> QED
  BY <1>1, <1>2, <1>3, <1>4, <1>5, <1>6, <1>7 DEF Next

\* The invariant holds at the start.
LEMMA NInvInit == Init => NInv
  BY TInvInit, EmptyLinked, EmptyListFacts DEF Init, NInv

\* What the invariant says of the list and of the task that runs.
LEMMA NInvSays == NInv => ListInOrder /\ RunsLoadedTasks
<1>1. ASSUME NInv, ~tasks.stale PROVE InOrder(tasks, Chain(tasks)) /\ mode # "wild"
  <2>1. tasks \in ListState /\ mode # "wild" /\ \E n, q : Linked(tasks, n, q)
    BY <1>1 DEF NInv, TInv, SchedulerType
  <2> QED
    BY <2>1, LinkedInOrder
<1> QED
  BY <1>1 DEF ListInOrder, RunsLoadedTasks

\* For any number of processes, loaded and gone in any order: the list holds every live
\* task once in the order of arrival and ends at the tail, until a task leaves whose
\* predecessor has left before it.
THEOREM ListStaysInOrder == Spec => []ListInOrder
  BY NInvInit, NInvStep, NInvSays, PTL DEF Spec

\* And until then no freed task is ever run, by the timer or after an exit.
THEOREM RunsOnlyLoaded == Spec => []RunsLoadedTasks
  BY NInvInit, NInvStep, NInvSays, PTL DEF Spec

\* Every step before that is a step of the rotation.
LEMMA RotationStep ==
    ASSUME NInv, [Next]_vars, ~tasks'.stale
    PROVE  RR!Next \/ StandsStill
<1>a. NInv' /\ TInv
  BY NInvStep DEF NInv
<1>b. /\ tasks \in ListState /\ mode' # "wild"
      /\ \E n, q : Linked(tasks, n, q)
  BY <1>a, StaleStays DEF NInv, TInv, SchedulerType
<1>c. PICK n, q : Linked(tasks, n, q)
  BY <1>b
<1>d. Walks(tasks, n, q) /\ n \in Nat /\ q \in [1 .. n -> Cells]
  BY <1>c, LinkedWalks DEF Linked
<1>1. CASE BootLoad \/ process_load_start \/ invoke_system_command_inject_fails
  <2>1. Orderly(tasks, n, q)
    BY <1>c, <1>d DEF Orderly, Linked
  <2>2. \E t \in Cells : RR!Arrive(t)
    BY <1>1, <1>a, <2>1, LoadsArrive
  <2> QED
    BY <2>2 DEF RR!Next
<1>2. CASE task_run_first_ever_task
  BY <1>2, <1>a, <1>d, StartStep DEF RR!Next
<1>3. CASE idt_clock
  <2>1. tasks.current \in tasks.alloc
    BY <1>3, <1>a DEF idt_clock, TInv
  <2>2. PICK i \in 1 .. n : tasks.current = q[i]
    BY <1>b, <1>c, <2>1 DEF Linked, ListState
  <2> QED
    BY <1>3, <1>a, <1>b, <1>d, <2>2, ClockStep DEF RR!Next
<1>4. CASE process_terminate_current
  <2>1. PICK i \in 1 .. n : Left(n, q, i)
    BY <1>4, <1>a, <1>c, ExitLinked
  <2>2. Walks(tasks', n - 1, AfterLeaving(q, n, i))
    BY <2>1, LinkedWalks DEF Left
  <2>3. RR!Leave
    BY <1>d, <2>1, <2>2, LeaveStep DEF Left
  <2> QED
    BY <2>3 DEF RR!Next
<1>5. CASE load_map_fails
  <2>1. Walks(tasks', n, q)
    BY <1>5, <1>a, <1>c, MapFailsLinked, LinkedWalks
  <2>2. tasks'.current = tasks.current
    BY <1>5, <1>a, MapFailsEffect
  <2> QED
    BY <1>d, <2>1, <2>2, StandsStep
<1>6. CASE BootFails \/ idt_zero \/ panic \/ NotFollowed \/ UNCHANGED vars
  BY <1>6 DEF BootFails, idt_zero, panic, NotFollowed, vars, StandsStill
<1> QED
  BY <1>1, <1>2, <1>3, <1>4, <1>5, <1>6 DEF Next

\* The form in which the rotation is stated.
LEMMA RotatesStep ==
    NInv /\ [Next]_vars =>
      [~tasks'.stale => UNCHANGED <<Chain(tasks), tasks.current>> \/ RR!Next]_vars
  BY RotationStep DEF StandsStill

\* For any number of processes, loaded and gone in any order: until a task leaves whose
\* predecessor has left before it, tasks take turns in the order of their arrival, the
\* timer passes the turn to the next one and to no other, an exit passes it over one,
\* and a task that has left has left for good.
THEOREM TasksRotate == Spec => Rotates
  BY NInvInit, NInvStep, RotatesStep, PTL DEF Spec, Rotates

-----------------------------------------------------------------------------
Registers == [gp : Nat, eax : Nat, ip : Nat, esp : Nat, flags : Nat]

\* The same in everything that a switch preserves.
Same(a, b) == a.gp = b.gp /\ a.eax = b.eax /\ a.ip = b.ip /\ a.esp = b.esp

\* Every step is one of Scheduler, or leaves the tasks alone.
LEMMA StepsOfScheduler == ContextNext => [Next]_vars
<1> SUFFICES ASSUME ContextNext PROVE Next \/ UNCHANGED vars
  OBVIOUS
<1>1. CASE \E v \in Values : UserCode(v)
  BY <1>1 DEF UserCode
<1>2. CASE Boot \/ FirstTask \/ Timer \/ Leaves \/ Start
  BY <1>2 DEF Boot, FirstTask, Timer, Leaves, Start, Next
<1>3. CASE isr80h_handler \/ interrupt_handler \/ Stands
  BY <1>3 DEF isr80h_handler, interrupt_handler, Stands, Next
<1> QED
  BY <1>1, <1>2, <1>3 DEF ContextNext

\* All that is proved of the tasks under Scheduler's specification holds here.
THEOREM ContextImplementsScheduler == ContextSpec => Init /\ [][Next]_vars
<1>1. ContextInit => Init
  BY DEF ContextInit
<1>2. [ContextNext]_allVars => [Next]_vars
  BY StepsOfScheduler DEF allVars
<1> QED
  BY <1>1, <1>2, PTL DEF ContextSpec

\* The inductive invariant.  A task that waits has its registers in its struct task; the
\* one that runs has them in the processor.
CInv ==
    /\ TInv
    /\ registers \in [Cells -> Registers]
    /\ own \in [Cells -> Registers]
    /\ mode # "wild" => cpu \in Registers
    /\ \A t \in tasks.alloc :
         (mode \in {"user", "dividing"} /\ t = tasks.current) \/ Same(registers[t], own[t])
    /\ mode = "user" => Same(cpu, own[tasks.current]) /\ directory = tasks.current

\* What every step needs of the invariant.
LEMMA CInvFacts ==
    ASSUME CInv
    PROVE  /\ tasks \in ListState /\ tasks.alloc \subseteq Cells
           /\ mode = "user" => tasks.current \in tasks.alloc /\ tasks.current \in Cells
                               /\ cpu \in Registers
           /\ task_init \in Registers
  BY DEF CInv, TInv, SchedulerType, ListState, task_init, Registers

\* A handler that saved the frame: afterwards every task has its registers saved, as
\* long as the step changes nothing that a task owns.
LEMMA SavedSame ==
    ASSUME CInv, mode = "user", tasks'.alloc \subseteq Cells, registers' = Saved,
           \A t \in tasks'.alloc : own'[t] = IF t \in Created THEN task_init ELSE own[t]
    PROVE  /\ registers' \in [Cells -> Registers]
           /\ \A t \in tasks'.alloc : Same(registers'[t], own'[t])
<1>1. registers' \in [Cells -> Registers]
  BY CInvFacts DEF CInv, Saved, task_save_state
<1>2. ASSUME NEW t \in tasks'.alloc
      PROVE  Same(registers'[t], own'[t])
  <2>1. CASE t \in Created
    BY <2>1 DEF Same, Saved
  <2>2. CASE t \notin Created
    <3>1. t \in tasks.alloc /\ own'[t] = own[t]
      BY <2>2 DEF Created
    <3>2. registers'[t] = IF t = tasks.current THEN cpu ELSE registers[t]
      BY <2>2 DEF Saved, task_save_state
    <3> QED
      BY <3>1, <3>2 DEF CInv
  <2> QED
    BY <2>1, <2>2
<1> QED
  BY <1>1, <1>2

\* The end of a handler that leaves by task_return.
LEMMA ResumeSame ==
    ASSUME Resume, mode' \in {"user", "panic", "wild"}, cpu \in Registers,
           registers' \in [Cells -> Registers], tasks'.alloc \subseteq Cells,
           mode' = "user" => tasks'.current \in tasks'.alloc,
           \A t \in tasks'.alloc : Same(registers'[t], own'[t])
    PROVE  /\ mode' # "wild" => cpu' \in Registers
           /\ mode' = "user" => Same(cpu', own'[tasks'.current]) /\ directory' = tasks'.current
<1>1. CASE mode' = "panic"
  BY <1>1 DEF Resume
<1>2. CASE mode' = "user"
  <2> DEFINE r == registers'[tasks'.current]
  <2>1. r \in Registers /\ Same(r, own'[tasks'.current])
    BY <1>2
  <2>2. cpu' = [r EXCEPT !.flags = 0] /\ directory' = tasks'.current
    BY <1>2 DEF Resume, task_return, task_switch, KernelFlags
  <2> HIDE DEF r
  <2>3. cpu' \in Registers /\ Same(cpu', r)
    BY <2>1, <2>2 DEF Registers, Same
  <2> QED
    BY <2>1, <2>2, <2>3 DEF Same
<1>3. CASE mode' = "wild"
  BY <1>3
<1> QED
  BY <1>1, <1>2, <1>3

\* The end of a handler that returns through the frame, the current task staying the
\* same.
LEMMA FrameSame ==
    ASSUME CInv, mode = "user", tasks'.current = tasks.current, tasks'.alloc \subseteq Cells,
           NEW eax \in Nat, ReturnByFrame(eax),
           registers' = Saved \/ (registers' = registers /\ Created = {})
    PROVE  /\ registers' \in [Cells -> Registers] /\ own' \in [Cells -> Registers]
           /\ cpu' \in Registers
           /\ \A t \in tasks'.alloc : t = tasks.current \/ Same(registers'[t], own'[t])
           /\ Same(cpu', own'[tasks.current]) /\ directory' = tasks.current
<1> DEFINE c == tasks.current
           new == [own[c] EXCEPT !.eax = eax]
<1>1. /\ c \in tasks.alloc /\ c \in Cells /\ cpu \in Registers /\ task_init \in Registers
      /\ own \in [Cells -> Registers] /\ registers \in [Cells -> Registers]
      /\ Same(cpu, own[c]) /\ c \notin Created
  BY CInvFacts DEF CInv, Created
<1>2. /\ cpu' = [cpu EXCEPT !.eax = eax] /\ directory' = c
      /\ own' = [t \in Cells |-> IF t \in Created THEN task_init
                                 ELSE IF t = c THEN new ELSE own[t]]
  BY DEF ReturnByFrame, task_switch
<1>3. cpu' \in Registers /\ new \in Registers /\ Same(cpu', new)
  BY <1>1, <1>2 DEF Registers, Same
<1> HIDE DEF new
<1>4. own' \in [Cells -> Registers] /\ own'[c] = new
  BY <1>1, <1>2, <1>3
<1>5. registers' \in [Cells -> Registers]
  BY <1>1 DEF Saved, task_save_state
<1>6. ASSUME NEW t \in tasks'.alloc, t # c
      PROVE  Same(registers'[t], own'[t])
  <2>1. CASE t \in Created
    BY <1>2, <2>1 DEF Same, Saved
  <2>2. CASE t \notin Created
    <3>1. registers'[t] = registers[t] /\ own'[t] = own[t] /\ t \in tasks.alloc
      BY <1>2, <1>6, <2>2 DEF Saved, Created
    <3> QED
      BY <1>6, <3>1 DEF CInv
  <2> QED
    BY <2>1, <2>2
<1> QED
  BY <1>2, <1>3, <1>4, <1>5, <1>6

\* Every step preserves the invariant.
LEMMA CInvStep == CInv /\ [ContextNext]_allVars => CInv'
<1> SUFFICES ASSUME CInv, [ContextNext]_allVars PROVE CInv'
  OBVIOUS
<1>a. TInv'
  BY TInvStep, StepsOfScheduler DEF CInv, allVars
<1>b. /\ tasks' \in ListState /\ tasks'.alloc \subseteq Cells
      /\ mode' = "user" => tasks'.current \in tasks'.alloc
  BY <1>a DEF TInv, SchedulerType, ListState
<1>c. /\ tasks \in ListState /\ tasks.alloc \subseteq Cells
      /\ mode = "user" => tasks.current \in tasks.alloc /\ tasks.current \in Cells
                          /\ cpu \in Registers
      /\ task_init \in Registers
      /\ TInv /\ own \in [Cells -> Registers] /\ registers \in [Cells -> Registers]
  BY CInvFacts DEF CInv
<1>1. CASE Boot
  <2>1. /\ mode \in {"load blank", "load shell"} /\ mode' \in {"load shell", "start", "panic"}
        /\ directory' = directory /\ cpu' = cpu
        /\ registers' = [t \in Cells |-> IF t \in Created THEN task_init ELSE registers[t]]
        /\ own' = [t \in Cells |-> IF t \in Created THEN task_init ELSE own[t]]
    BY <1>1 DEF Boot, BootLoad, BootFails, OwnCreated
  <2>2. registers' \in [Cells -> Registers] /\ own' \in [Cells -> Registers]
    BY <1>c, <2>1
  <2>3. \A t \in tasks'.alloc : Same(registers'[t], own'[t])
    BY <1>b, <2>1 DEF CInv, Created, Same
  <2>4. cpu' \in Registers
    BY <2>1 DEF CInv
  <2> QED
    BY <1>a, <2>1, <2>2, <2>3, <2>4 DEF CInv
<1>2. CASE FirstTask
  <2>1. /\ mode = "start" /\ mode' = "user" /\ tasks'.alloc = tasks.alloc
        /\ registers' = registers /\ own' = own /\ Resume
    BY <1>2, <1>c DEF FirstTask, task_run_first_ever_task, ListState
  <2>2. \A t \in tasks'.alloc : Same(registers'[t], own'[t])
    BY <2>1 DEF CInv
  <2>3. cpu \in Registers
    BY <2>1 DEF CInv
  <2>4. cpu' \in Registers /\ Same(cpu', own'[tasks'.current]) /\ directory' = tasks'.current
    BY <1>b, <1>c, <2>1, <2>2, <2>3, ResumeSame
  <2> QED
    BY <1>a, <1>c, <2>1, <2>2, <2>4 DEF CInv
<1>3. CASE \E v \in Values : UserCode(v)
  <2>1. PICK v \in Values : UserCode(v)
    BY <1>3
  <2>2. v \in Nat /\ mode = "user"
    BY <2>1, ValuesAssumption DEF UserCode
  <2>3. /\ cpu' \in Registers /\ own' = [own EXCEPT ![tasks.current] = cpu']
        /\ tasks' = tasks /\ mode' = mode /\ registers' = registers /\ directory' = directory
    BY <2>1, <2>2 DEF UserCode, Registers, vars
  <2>4. /\ own' \in [Cells -> Registers] /\ own'[tasks.current] = cpu'
        /\ \A t \in tasks.alloc : t # tasks.current => own'[t] = own[t]
    BY <1>c, <2>2, <2>3
  <2>5. Same(cpu', own'[tasks'.current]) /\ directory' = tasks'.current
    BY <2>2, <2>3, <2>4 DEF CInv, Same
  <2> QED
    BY <1>a, <1>c, <2>2, <2>3, <2>4, <2>5 DEF CInv
<1>4. CASE Timer
  <2>1. /\ mode = "user" /\ task_next(tasks) /\ registers' = Saved /\ Resume /\ own' = own
    BY <1>4 DEF Timer, idt_clock
  <2>2. tasks'.alloc = tasks.alloc /\ mode' \in {"user", "panic", "wild"}
    BY <1>c, <2>1, TaskNextEffect
  <2>3. \A t \in tasks'.alloc : own'[t] = IF t \in Created THEN task_init ELSE own[t]
    BY <2>1, <2>2 DEF Created
  <2>4. /\ registers' \in [Cells -> Registers]
        /\ \A t \in tasks'.alloc : Same(registers'[t], own'[t])
    BY <1>b, <2>1, <2>3, SavedSame
  <2>5. /\ mode' # "wild" => cpu' \in Registers
        /\ mode' = "user" => Same(cpu', own'[tasks'.current]) /\ directory' = tasks'.current
    BY <1>b, <1>c, <2>1, <2>2, <2>4, ResumeSame
  <2> QED
    BY <1>a, <1>c, <2>1, <2>4, <2>5 DEF CInv
<1>5. CASE Leaves
  <2>1. /\ mode = "user" /\ registers' = Saved /\ Resume
        /\ own' = [own EXCEPT ![tasks.current] = task_init] /\ process_terminate_current
    BY <1>5 DEF Leaves, process_terminate_current
  <2>2. PICK s :
          /\ Removed(tasks, tasks.current, s)
          /\ \/ tasks' = s /\ mode' = "panic"
             \/ processes'[current_process'] # NULL /\ task_next(s)
    BY <1>c, <2>1, ExitEffect
  <2>3. s \in ListState /\ s.alloc = tasks.alloc \ {tasks.current}
    BY <2>2 DEF Removed
  <2>4. tasks'.alloc = tasks.alloc \ {tasks.current} /\ mode' \in {"user", "panic", "wild"}
    BY <2>2, <2>3, TaskNextEffect
  <2>5. /\ own' \in [Cells -> Registers]
        /\ \A t \in tasks'.alloc : own'[t] = IF t \in Created THEN task_init ELSE own[t]
    BY <1>c, <2>1, <2>4 DEF Created
  <2>6. /\ registers' \in [Cells -> Registers]
        /\ \A t \in tasks'.alloc : Same(registers'[t], own'[t])
    BY <1>b, <2>1, <2>5, SavedSame
  <2>7. /\ mode' # "wild" => cpu' \in Registers
        /\ mode' = "user" => Same(cpu', own'[tasks'.current]) /\ directory' = tasks'.current
    BY <1>b, <1>c, <2>1, <2>4, <2>6, ResumeSame
  <2> QED
    BY <1>a, <2>5, <2>6, <2>7 DEF CInv
<1>6. CASE Start
  <2>1. /\ mode = "user" /\ mode' = "user" /\ registers' = Saved /\ Resume
        /\ own' = [t \in Cells |-> IF t \in Created THEN task_init ELSE own[t]]
    BY <1>6 DEF Start, process_load_start, OwnCreated
  <2>2. /\ own' \in [Cells -> Registers]
        /\ \A t \in tasks'.alloc : own'[t] = IF t \in Created THEN task_init ELSE own[t]
    BY <1>b, <1>c, <2>1
  <2>3. /\ registers' \in [Cells -> Registers]
        /\ \A t \in tasks'.alloc : Same(registers'[t], own'[t])
    BY <1>b, <2>1, <2>2, SavedSame
  <2>4. cpu' \in Registers /\ Same(cpu', own'[tasks'.current]) /\ directory' = tasks'.current
    BY <1>b, <1>c, <2>1, <2>3, ResumeSame
  <2> QED
    BY <1>a, <2>2, <2>3, <2>4 DEF CInv
<1>7. CASE isr80h_handler
  <2>1. /\ mode = "user" /\ registers' = Saved
        /\ invoke_system_command_inject_fails \/ load_map_fails \/ UNCHANGED vars
    BY <1>7 DEF isr80h_handler
  <2>2. PICK result \in Nat : ReturnByFrame(result)
    BY <1>7, ValuesAssumption DEF isr80h_handler
  <2>3. tasks'.current = tasks.current /\ mode' = "user"
    <3>1. CASE invoke_system_command_inject_fails
      <4>1. PICK task \in FreshCells : process_load_switch(task)
        BY <3>1 DEF invoke_system_command_inject_fails
      <4>2. tasks.head \in tasks.alloc /\ tasks.head # NULL
        BY <1>c, <2>1, CellsAssumption DEF TInv
      <4> QED
        BY <1>c, <2>1, <3>1, <4>1, <4>2, LoadSwitchStep DEF invoke_system_command_inject_fails
    <3>2. CASE load_map_fails
      BY <1>c, <2>1, <3>2, MapFailsEffect
    <3>3. CASE UNCHANGED vars
      BY <2>1, <3>3 DEF vars
    <3> QED
      BY <2>1, <3>1, <3>2, <3>3
  <2>4. /\ registers' \in [Cells -> Registers] /\ own' \in [Cells -> Registers]
        /\ cpu' \in Registers
        /\ \A t \in tasks'.alloc : t = tasks.current \/ Same(registers'[t], own'[t])
        /\ Same(cpu', own'[tasks.current]) /\ directory' = tasks.current
    BY <1>b, <2>1, <2>2, <2>3, FrameSame
  <2> QED
    BY <1>a, <2>3, <2>4 DEF CInv
<1>8. CASE interrupt_handler
  <2>1. /\ mode = "user" /\ registers' \in {registers, Saved} /\ tasks' = tasks
        /\ mode' = mode /\ ReturnByFrame(cpu.eax)
    BY <1>8 DEF interrupt_handler, vars
  <2>2. cpu.eax \in Nat /\ Created = {}
    BY <1>c, <2>1 DEF Registers, Created
  <2>3. /\ registers' \in [Cells -> Registers] /\ own' \in [Cells -> Registers]
        /\ cpu' \in Registers
        /\ \A t \in tasks'.alloc : t = tasks.current \/ Same(registers'[t], own'[t])
        /\ Same(cpu', own'[tasks.current]) /\ directory' = tasks.current
    BY <1>b, <2>1, <2>2, FrameSame
  <2> QED
    BY <1>a, <2>1, <2>3 DEF CInv
<1>9. CASE Stands
  <2>1. /\ mode' \in {"panic", "dividing", "wild"} /\ tasks' = tasks
        /\ mode' = mode \/ (mode = "user" /\ mode' = "dividing")
        /\ UNCHANGED contextVars
    BY <1>9 DEF Stands, idt_zero, panic, NotFollowed, vars
  <2> QED
    BY <1>a, <2>1 DEF CInv, contextVars
<1>10. CASE UNCHANGED allVars
  BY <1>a, <1>10 DEF CInv, allVars, vars, contextVars
<1> QED
  BY <1>1, <1>2, <1>3, <1>4, <1>5, <1>6, <1>7, <1>8, <1>9, <1>10 DEF ContextNext

\* The invariant holds in every reachable state.
LEMMA CInvHolds == ContextSpec => []CInv
<1>1. ContextInit => CInv
  <2> SUFFICES ASSUME ContextInit PROVE CInv
    OBVIOUS
  <2>1. TInv /\ mode = "load blank" /\ tasks.alloc = {}
    BY TInvInit, EmptyListFacts DEF ContextInit, Init
  <2>2. task_init \in Registers
    BY DEF task_init, Registers
  <2> QED
    BY <2>1, <2>2 DEF ContextInit, CInv
<1>2. CInv /\ [ContextNext]_allVars => CInv'
  BY CInvStep
<1> QED
  BY <1>1, <1>2, PTL DEF ContextSpec

\* A task goes on with the general purpose registers, eax, ip and esp that its own
\* instructions and system calls have left, whatever interrupts, switches, loads and
\* exits came in between: task_save_state and task_return lose none of them.
THEOREM RegistersAreOwn == ContextSpec => []OwnRegisters
<1>1. CInv => OwnRegisters
  BY DEF CInv, Same, OwnRegisters
<1> QED
  BY <1>1, CInvHolds, PTL

\* Whenever user code runs, task_switch and task_page have loaded the page directory of
\* the running task, which has not been freed.
THEOREM DirectoryIsOwn == ContextSpec => []OwnDirectory
<1>1. CInv => OwnDirectory
  BY DEF CInv, TInv, OwnDirectory
<1> QED
  BY <1>1, CInvHolds, PTL

\* The results about the list and the tables, with registers and directories in the
\* model: whatever the order of loads, exits, faults and timer interrupts, the process
\* table and the task list agree.
THEOREM ContextTablesAgree == ContextSpec => []TableMatchesTasks
<1>1. TInv => TableMatchesTasks
  BY DEF TInv, Agree, TableMatchesTasks
<1> QED
  BY <1>1, TInvInit, TInvStep, ContextImplementsScheduler, PTL

\* While user code runs, the keyboard belongs to a loaded process.
THEOREM ContextKeyboardIsOwned == ContextSpec => []KeyboardHasOwner
<1>1. TInv => KeyboardHasOwner
  BY CellsAssumption DEF TInv, KeyboardHasOwner
<1> QED
  BY <1>1, TInvInit, TInvStep, ContextImplementsScheduler, PTL

\* The list stays in order until a task leaves after its predecessor did.
THEOREM ContextListInOrder == ContextSpec => []ListInOrder
  BY NInvInit, NInvStep, NInvSays, ContextImplementsScheduler, PTL

\* Until then neither the timer nor an exit runs a freed task.
THEOREM ContextRunsLoaded == ContextSpec => []RunsLoadedTasks
  BY NInvInit, NInvStep, NInvSays, ContextImplementsScheduler, PTL

\* And the tasks take turns in the order of their arrival, the one behind a task that
\* exits being passed over.
THEOREM ContextRotates == ContextSpec => Rotates
  BY NInvInit, NInvStep, RotatesStep, ContextImplementsScheduler, PTL DEF Rotates
=============================================================================
