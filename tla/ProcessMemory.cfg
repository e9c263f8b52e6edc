\* Two processes that are loaded in every way, allocate, free, exit and are loaded
\* again, in a pool that the leaks of failed loads fill up.
CONSTANTS
    TotalBlocks = 12
    BlockSize = 4
    LowBlocks = 1
    WordSize = 128
    KernelIndex = 25
    Slots = {0, 1}
    MaxAllocs = 2
    Sizes <- MCSizes
    Loads <- MCAllLoads
    Args = {1}
    ObjectSize = 4
SPECIFICATION Spec
INVARIANTS WritesOwnPagesOnly TableListsMallocs TaskStaysPresent ExtentsDisjoint
PROPERTIES ExitFreesAll
