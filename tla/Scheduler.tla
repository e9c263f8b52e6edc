----------------------------- MODULE Scheduler ------------------------------
(***************************************************************************)
(* Processes and tasks: loading at boot and by system call, the timer      *)
(* interrupt, exit and exceptions (src/task/task.c, src/task/process.c,    *)
(* src/idt/idt.c, src/isr80h/process.c, src/kernel.c).                     *)
(*                                                                         *)
(* Interrupt gates clear IF, so that every handler is one step and only    *)
(* user code is preempted; user code may make any call at any time.        *)
(*                                                                         *)
(* A process is named by its slot in the table; processes[p] is the        *)
(* task of that process.  current_process is the one with the keyboard,    *)
(* which need not be the one that runs.                                    *)
(***************************************************************************)
EXTENDS TaskList

VARIABLES
    tasks,            \* the task list: see TaskList
    processes,        \* Slots -> the process's task, NULL for a free slot
    current_process,  \* the process that has the keyboard
    mode              \* what the processor is doing

vars == <<tasks, processes, current_process, mode>>

\* kernel_main's two loads and the start, user code, the endless loop of panic, what
\* comes of a division by zero, and the execution of a task that has been freed.
Modes == {"load blank", "load shell", "start", "user", "panic", "dividing", "wild"}

Init ==
    /\ tasks = EmptyList
    /\ processes = [p \in Slots |-> NULL]
    /\ current_process = NULL
    /\ mode = "load blank"

-----------------------------------------------------------------------------
FreeSlots == {p \in Slots : processes[p] = NULL}

process_get_free_slot == CHOOSE p \in FreeSlots : \A q \in FreeSlots : p <= q

\* process_load_switch succeeds: a new process with its task in the first free slot,
\* and the keyboard goes to it.
process_load_switch(task) ==
    LET p == process_get_free_slot
    IN  /\ tasks' = task_new(tasks, task, p)
        /\ processes' = [processes EXCEPT ![p] = task]
        /\ current_process' = p

\* The addresses that kzalloc can return for the next task.
FreshCells == Cells \ tasks.alloc

\* kernel_main loads blank.elf and then shell.elf.
BootLoad ==
    /\ mode \in {"load blank", "load shell"}
    /\ FreeSlots # {}
    /\ \E task \in FreshCells : process_load_switch(task)
    /\ mode' = IF mode = "load blank" THEN "load shell" ELSE "start"

\* A load that fails at boot is a panic.
BootFails ==
    /\ mode \in {"load blank", "load shell"}
    /\ mode' = "panic"
    /\ UNCHANGED <<tasks, processes, current_process>>

task_run_first_ever_task ==
    /\ mode = "start"
    /\ tasks' = [tasks EXCEPT !.current = tasks.head]
    /\ mode' = "user"
    /\ UNCHANGED <<processes, current_process>>

-----------------------------------------------------------------------------
\* The processor goes on with the successor of s.current: the end of a handler that
\* does not return to its caller.  A freed current or next task is read through, and
\* what runs then is whatever the memory holds.
task_next(s) ==
    IF s.current \notin s.alloc
    THEN tasks' = s /\ mode' = "wild"
    ELSE LET next_task == task_get_next(s)
         IN  CASE next_task = NULL       -> tasks' = s /\ mode' = "panic"
               [] next_task \in s.alloc  -> tasks' = [s EXCEPT !.current = next_task]
                                            /\ mode' = "user"
               [] OTHER                  -> tasks' = [s EXCEPT !.current = next_task]
                                            /\ mode' = "wild"

\* The timer interrupt.
idt_clock ==
    /\ mode = "user"
    /\ task_next(tasks)
    /\ UNCHANGED <<processes, current_process>>

\* Mutant: the keyboard stays with the process that has gone.
UnlinkKeepsKeyboard(p) ==
    /\ processes' = [processes EXCEPT ![p] = NULL]
    /\ UNCHANGED current_process

\* The slot becomes free, and the keyboard goes to the first process that is left.
process_unlink(p) ==
    /\ processes' = [processes EXCEPT ![p] = NULL]
    /\ current_process' =
         IF current_process # p
         THEN current_process
         ELSE LET left == {q \in Slots \ {p} : processes[q] # NULL}
              IN  IF left = {} THEN p ELSE CHOOSE q \in left : \A r \in left : q <= r

\* process_switch_to_any finds no process.
NoneLeft(p) == current_process = p /\ \A q \in Slots \ {p} : processes[q] = NULL

\* command9_exit and idt_handle_exception: the process of the current task is
\* terminated and the processor goes on with the next one.
process_terminate_current ==
    /\ mode = "user"
    /\ LET p == tasks.cell[tasks.current].process
           s == task_free(tasks, processes[p])
       IN  /\ process_unlink(p)
           /\ IF NoneLeft(p)
              THEN tasks' = s /\ mode' = "panic"
              ELSE task_next(s)

\* The gate of vector 0 leads to idt_zero itself and not to interrupt_handler, so that
\* the callback for exceptions is not reached.  idt_zero returns as a function does, to
\* the division, in kernel mode with interrupts off and with the registers that print
\* left: it faults again or the program goes on from there.  No timer interrupt comes any
\* more, and what the program does with the kernel's privilege is not followed.
idt_zero ==
    /\ mode = "user"
    /\ mode' = "dividing"
    /\ UNCHANGED <<tasks, processes, current_process>>

-----------------------------------------------------------------------------
\* command6, or command7 with arguments that fit: the new task runs at once.
process_load_start ==
    /\ mode = "user"
    /\ FreeSlots # {}
    /\ \E task \in FreshCells :
         LET p == process_get_free_slot
         IN  /\ tasks' = [task_new(tasks, task, p) EXCEPT !.current = task]
             /\ processes' = [processes EXCEPT ![p] = task]
             /\ current_process' = p
    /\ UNCHANGED mode

\* command7 when process_inject_arguments fails: the caller gets an error and goes on,
\* but the process is loaded, in the rotation and has the keyboard.
invoke_system_command_inject_fails ==
    /\ mode = "user"
    /\ FreeSlots # {}
    /\ \E task \in FreshCells : process_load_switch(task)
    /\ UNCHANGED mode

\* Mutant: the error path forgets the task.
LoadMapFailsKeepsTask ==
    /\ mode = "user"
    /\ FreeSlots # {}
    /\ \E task \in FreshCells : tasks' = task_new(tasks, task, process_get_free_slot)
    /\ UNCHANGED <<processes, current_process, mode>>

\* A load that fails at process_map_memory: the task had been created and is freed.
load_map_fails ==
    /\ mode = "user"
    /\ FreeSlots # {}
    /\ \E task \in FreshCells :
         tasks' = task_free(task_new(tasks, task, process_get_free_slot), task)
    /\ UNCHANGED <<processes, current_process, mode>>

\* panic() never ends.
panic == mode = "panic" /\ UNCHANGED vars

\* User code in kernel mode, or whatever a freed task's memory holds: not followed.
NotFollowed == mode \in {"dividing", "wild"} /\ UNCHANGED vars

Next ==
    \/ BootLoad \/ BootFails \/ task_run_first_ever_task
    \/ idt_clock
    \/ process_terminate_current \/ idt_zero
    \/ process_load_start \/ invoke_system_command_inject_fails \/ load_map_fails
    \/ panic \/ NotFollowed

\* The interval timer keeps firing while user code runs.
Spec == Init /\ [][Next]_vars /\ WF_vars(idt_clock)

-----------------------------------------------------------------------------
\* task.c:75 on task_list_remove: "remove task from linked list".  The processor never
\* runs a task that has been removed and freed: neither the timer nor the end of a
\* process follows a pointer to a dead task.
NeverRunsFreedTask == mode # "wild"

\* The process table and the task list agree: every process in the table has an
\* allocated task that names it, and every allocated task belongs to one.
TableMatchesTasks ==
    /\ \A p \in Slots : processes[p] # NULL =>
          processes[p] \in tasks.alloc /\ tasks.cell[processes[p]].process = p
    /\ \A t \in tasks.alloc : processes[tasks.cell[t].process] = t

\* While user code runs the keyboard belongs to a process that is loaded.
KeyboardHasOwner ==
    mode = "user" => current_process # NULL /\ processes[current_process] # NULL

\* Exits in any order, of any task, leave the list right as long as no task leaves after
\* its predecessor did (~stale): the list from the head holds every live task once, in the
\* order of arrival, ends at the tail, and only leftovers of prev are wrong.
ListInOrder == ~tasks.stale => InOrder(tasks, Chain(tasks))

\* As long as no task has left after its predecessor did, the processor runs no task
\* that has been removed and freed, whoever exits, faults or fails to load.
RunsLoadedTasks == ~tasks.stale => mode # "wild"

RR == INSTANCE RoundRobin WITH
        Tasks <- Cells, NoTask <- NULL, order <- Chain(tasks), running <- tasks.current

\* Every step up to the removal that spoils the list is a step of the rotation: the timer
\* gives the turn to the task behind, and an exit to the one behind that.
Rotates ==
    [][~tasks'.stale => UNCHANGED <<Chain(tasks), tasks.current>> \/ RR!Next]_vars

\* Once nobody loads or exits any more, every task that is left gets its turn for ever,
\* unless the list has been spoiled.
TurnsWhenQuiet ==
    <>[][idt_clock]_vars =>
        \A t \in Cells :
            []<>(t \notin tasks.alloc \/ tasks.current = t \/ mode # "user" \/ tasks.stale)
=============================================================================
