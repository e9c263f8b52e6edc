\* The loops against Heap, for requests of at least one block.
CONSTANTS
    TotalBlocks = 5
    BlockSize = 4
    LowBlocks = 2
    WordSize = 64
    KernelIndex = 11
    Sizes <- MCSizes
    BootBytes <- MCBootBytes
SPECIFICATION LoopsSpec
INVARIANTS FreeWalksOwnBlocks
PROPERTIES HeapSpec CallsReturn
