------------------------------ MODULE Context -------------------------------
(***************************************************************************)
(* What a task sees of the processor: its registers and its page directory *)
(* across interrupts, system calls and task switches (src/task/task.c,     *)
(* src/task/task.asm, src/idt/idt.c, src/idt/idt.asm), on top of the steps *)
(* of Scheduler.                                                           *)
(*                                                                         *)
(* A register set has one entry per group that the code treats alike:      *)
(*   gp     edi, esi, ebp, ebx, edx, ecx                                   *)
(*   eax    command and result of a system call                            *)
(*   ip, esp, flags                                                        *)
(* cs and ss are the same for all tasks.  User code puts any value in all  *)
(* of them.                                                                *)
(*                                                                         *)
(* Most handlers return through the frame on the kernel stack, which       *)
(* restores everything; task_next and the loads leave by task_return, with *)
(* the registers saved in a struct task.                                   *)
(*                                                                         *)
(* own is a history variable: the registers as each task's instructions    *)
(* and the results of its system calls have left them.                     *)
(***************************************************************************)
EXTENDS Scheduler

CONSTANT Values  \* what user code puts in registers

ASSUME ValuesAssumption == Values \subseteq Nat \ {0}

VARIABLES
    cpu,        \* the registers of the processor in user mode
    registers,  \* task->registers
    directory,  \* the page directory that is loaded: KERNEL, or the task it belongs to
    own

contextVars == <<cpu, registers, directory, own>>
allVars == <<vars, contextVars>>

KERNEL == "kernel"

\* Flags that no task has set.
KernelFlags == 0

\* Zeroed, with the entry point and the stack of every program.
task_init == [gp |-> 0, eax |-> 0, ip |-> 0, esp |-> 0, flags |-> 0]

ContextInit ==
    /\ Init
    /\ cpu = task_init
    /\ registers = [t \in Cells |-> task_init]
    /\ directory = KERNEL
    /\ own = [t \in Cells |-> task_init]

-----------------------------------------------------------------------------
\* Tasks that a step creates.
Created == tasks'.alloc \ tasks.alloc

\* Mutant: esp is forgotten.
SaveNoStack(saved) == [cpu EXCEPT !.esp = saved.esp]

\* The registers of the frame, whole.
task_save_state(saved) == cpu

\* The handler was entered with a frame of the current task; tasks it creates start
\* with their initial registers.  What freed memory holds is left out.
Saved ==
    [t \in Cells |-> IF t \in Created \/ t \notin tasks'.alloc THEN task_init
                     ELSE IF t = tasks.current THEN task_save_state(registers[t])
                     ELSE registers[t]]

\* Loads everything from struct task but the flags: those are what the kernel's own
\* instructions have left, with IF set.
task_return(saved) == [saved EXCEPT !.flags = KernelFlags]

\* Mutant: the directory of the task before stays loaded.
SwitchNoPaging(task) == directory

\* paging_switch of the directory of the task that is switched to.
task_switch(task) == task

\* The end of a handler that leaves by task_return: the current task resumes.  A panic
\* comes before the switch; what a freed task resumes with is not followed.
Resume ==
    IF mode' \in {"panic", "wild"}
    THEN directory' = KERNEL /\ UNCHANGED cpu
    ELSE /\ directory' = task_switch(tasks'.current)
         /\ cpu' = task_return(registers'[tasks'.current])

\* What the tasks that a step creates own.
OwnCreated == own' = [t \in Cells |-> IF t \in Created THEN task_init ELSE own[t]]

-----------------------------------------------------------------------------
\* kernel_main runs on the kernel's directory.
Boot ==
    /\ BootLoad \/ BootFails
    /\ registers' = [t \in Cells |-> IF t \in Created THEN task_init ELSE registers[t]]
    /\ OwnCreated
    /\ UNCHANGED <<cpu, directory>>

FirstTask ==
    /\ task_run_first_ever_task
    /\ UNCHANGED registers
    /\ Resume
    /\ UNCHANGED own

\* One instruction of the running task, or many.
UserCode(v) ==
    /\ mode = "user"
    /\ cpu' = [gp |-> v, eax |-> v, ip |-> v, esp |-> v, flags |-> v]
    /\ own' = [own EXCEPT ![tasks.current] = cpu']
    /\ UNCHANGED <<vars, registers, directory>>

Timer ==
    /\ idt_clock
    /\ registers' = Saved
    /\ Resume
    /\ UNCHANGED own

\* Exit and exceptions save the registers of the task that is about to go.
Leaves ==
    /\ process_terminate_current
    /\ registers' = Saved
    /\ Resume
    /\ own' = [own EXCEPT ![tasks.current] = task_init]

\* A successful load leaves by task_return into the new task.  The caller's eax is
\* saved as it was in the call: the number of the command.
Start ==
    /\ process_load_start
    /\ registers' = Saved
    /\ Resume
    /\ OwnCreated

\* interrupt_handler and isr80h_handler to their end: task_page reloads the directory of
\* the current task and the frame restores the registers, eax being the result of a
\* system call.
ReturnByFrame(eax) ==
    /\ directory' = task_switch(tasks.current)
    /\ cpu' = [cpu EXCEPT !.eax = eax]
    /\ own' = [t \in Cells |->
                 IF t \in Created THEN task_init
                 ELSE IF t = tasks.current THEN [own[t] EXCEPT !.eax = eax]
                 ELSE own[t]]

\* The system calls that return, loads that fail among them, with any result.
isr80h_handler ==
    /\ mode = "user"
    /\ invoke_system_command_inject_fails \/ load_map_fails \/ UNCHANGED vars
    /\ registers' = Saved
    /\ \E result \in Values : ReturnByFrame(result)

\* An interrupt whose callback returns (the keyboard), or without a callback, in which
\* case nothing is saved.
interrupt_handler ==
    /\ mode = "user"
    /\ UNCHANGED vars
    /\ registers' \in {registers, Saved}
    /\ ReturnByFrame(cpu.eax)

\* No more user code.
Stands ==
    /\ idt_zero \/ panic \/ NotFollowed
    /\ UNCHANGED contextVars

ContextNext ==
    \/ Boot \/ FirstTask
    \/ \E v \in Values : UserCode(v)
    \/ Timer \/ Leaves \/ Start \/ isr80h_handler \/ interrupt_handler
    \/ Stands

\* The timer as in Scheduler.
ContextSpec == ContextInit /\ [][ContextNext]_allVars /\ WF_allVars(Timer)

-----------------------------------------------------------------------------
\* A task goes on with the registers it had: whenever user code runs, general purpose
\* registers, eax, ip and esp are as this task's own instructions and system calls have
\* left them, whatever ran in between and whoever had its struct task before.
\* (task_return does not restore the flags: see FlagsKept.)
OwnRegisters ==
    mode = "user" =>
        \A r \in {"gp", "eax", "ip", "esp"} : cpu[r] = own[tasks.current][r]

\* Whenever user code runs, the loaded page directory is the one of the running task,
\* and that task has not been freed.
OwnDirectory == mode = "user" => directory = tasks.current /\ directory \in tasks.alloc

\* task.h:69 on task_return: "the function will drop us into userland, also changes all
\* CPU registers": the flags a task resumes with are those it was interrupted with.
FlagsKept == mode = "user" => cpu.flags = own[tasks.current].flags
=============================================================================
