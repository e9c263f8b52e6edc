\* Three processes exiting in any order.
CONSTANTS
    Cells = {c1, c2, c3}
    Slots = {0, 1, 2}
    NULL = NULL
SPECIFICATION Spec
INVARIANT NeverRunsFreedTask
