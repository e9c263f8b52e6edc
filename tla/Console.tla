------------------------------ MODULE Console -------------------------------
(***************************************************************************)
(* The scheduler and the keyboard together: keys go to the process with    *)
(* the keyboard (current_process), getkey reads the keys of the process    *)
(* that runs, processes come and go and reuse each other's slots.          *)
(***************************************************************************)
EXTENDS Keyboard

CONSTANTS Cells, NULL  \* see Scheduler; a process is its slot

VARIABLES tasks, processes, current_process, mode

S == INSTANCE Scheduler WITH Slots <- Procs

schedVars == <<tasks, processes, current_process, mode>>
vars == <<schedVars, kbVars>>

Init == S!Init /\ KeyboardInit

\* The keyboard interrupt: user code runs, and the key goes to process_current().
KeyPressed(scancode) ==
    /\ mode = "user"
    /\ classic_keyboard_handle_interrupt(current_process, scancode) \/ KeyReleased(scancode)
    /\ UNCHANGED schedVars

\* The process of the running task.
Running == tasks.cell[tasks.current].process

\* command2_getkey by the process in slot p.
isr80h_command2_getkey(p) ==
    /\ mode = "user" /\ Running = p
    /\ keyboard_pop(p)
    /\ UNCHANGED schedVars

\* The steps that put a process into a slot zero its ring.
Load ==
    /\ S!BootLoad \/ S!process_load_start \/ S!invoke_system_command_inject_fails
    /\ process_init(S!process_get_free_slot)

\* The other steps of the scheduler touch no ring.
Schedule ==
    /\ \/ S!BootFails \/ S!task_run_first_ever_task \/ S!idt_clock
       \/ S!process_terminate_current \/ S!idt_zero \/ S!load_map_fails \/ S!panic
       \/ S!NotFollowed
    /\ UNCHANGED kbVars

Next ==
    \/ \E scancode \in Scancodes : KeyPressed(scancode)
    \/ \E p \in Procs : isr80h_command2_getkey(p)
    \/ Load
    \/ Schedule

Spec == Init /\ [][Next]_vars

-----------------------------------------------------------------------------
\* A loaded process reads its own keys in order, none of a process that had the slot
\* before it, whichever process runs when the key is pressed.
OwnKeysInOrder ==
    \A p \in Procs : processes[p] # NULL /\ ~lost[p] => Holds(keyboard[p], unread[p])
=============================================================================
