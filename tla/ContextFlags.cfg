\* Two tasks and the timer.
CONSTANTS
    Cells = {c1, c2}
    Slots = {0, 1}
    NULL = NULL
    Values = {1}
SPECIFICATION ContextSpec
INVARIANT FlagsKept
