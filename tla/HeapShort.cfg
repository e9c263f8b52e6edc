\* Requests of two and three blocks in a pool of six: the third allocation meets the end.
CONSTANTS
    TotalBlocks = 6
    BlockSize = 4
    LowBlocks = 3
    WordSize = 64
    KernelIndex = 13
    Sizes = {8, 11}
    BootBytes <- MCBootBytes
SPECIFICATION Spec
INVARIANT WholeRuns
