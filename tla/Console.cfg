\* Two slots that processes reuse in any order, rings of two keys.
CONSTANTS
    Cells = {c1, c2}
    Procs = {0, 1}
    NULL = NULL
    BufferSize = 2
    Word = 2
    Scancodes <- MCScancodes
SPECIFICATION Spec
INVARIANTS OwnKeysInOrder
