----------------------------- MODULE RoundRobin -----------------------------
(***************************************************************************)
(* What the scheduler promises: the loaded tasks take turns in the order   *)
(* in which they arrived, a task that leaves is out of the rotation for    *)
(* good, and the processor always runs a loaded task.  An exit costs the   *)
(* next task in line its turn.                                             *)
(***************************************************************************)
EXTENDS Naturals, Sequences

CONSTANTS Tasks, NoTask

VARIABLES
    order,   \* the loaded tasks, oldest first
    running  \* the task that has the processor

rrVars == <<order, running>>

Members(q) == {q[k] : k \in 1 .. Len(q)}

\* Where t stands in the rotation.
Position(q, t) == CHOOSE k \in 1 .. Len(q) : q[k] = t

Without(q, t) ==
    [k \in 1 .. Len(q) - 1 |-> IF k < Position(q, t) THEN q[k] ELSE q[k + 1]]

\* The task behind t in the rotation.
Successor(q, t) ==
    LET k == Position(q, t)
    IN  IF k = Len(q) THEN q[1] ELSE q[k + 1]

Init == order = <<>> /\ running = NoTask

\* A task arrives at the end of the rotation; it may be given the processor.
Arrive(t) ==
    /\ t \notin Members(order)
    /\ order' = Append(order, t)
    /\ running' \in {running, t} \ {NoTask}

\* The first task of all starts.
Start == order # <<>> /\ running' = order[1] /\ UNCHANGED order

\* The turn passes on.
Tick == running \in Members(order) /\ running' = Successor(order, running) /\ UNCHANGED order

\* The running task leaves.  The task behind it is PASSED OVER: the turn goes to the one
\* behind that.
Leave ==
    /\ running \in Members(order)
    /\ order' = Without(order, running)
    /\ running' = IF order' = <<>> THEN NoTask
                  ELSE Successor(order', Successor(order, running))

Next == (\E t \in Tasks : Arrive(t)) \/ Start \/ Tick \/ Leave

Spec == Init /\ [][Next]_rrVars
=============================================================================
