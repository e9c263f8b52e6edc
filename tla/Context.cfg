\* Three processes at a time, exiting in any order.
CONSTANTS
    Cells = {c1, c2, c3}
    Slots = {0, 1, 2}
    NULL = NULL
    Values = {1}
SPECIFICATION ContextSpec
INVARIANTS TableMatchesTasks KeyboardHasOwner OwnRegisters OwnDirectory
    ListInOrder RunsLoadedTasks
PROPERTIES Rotates TurnsWhenQuiet
