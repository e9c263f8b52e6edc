\* Every interleaving of allocations and frees over a pool of six blocks.
CONSTANTS
    TotalBlocks = 6
    BlockSize = 4
    LowBlocks = 3
    WordSize = 64
    KernelIndex = 13
    Sizes <- MCSizes
    BootBytes <- MCBootBytes
SPECIFICATION Spec
INVARIANTS TypeOK NoOverlap TableExact NullWalkStops
PROPERTIES OthersUntouched AllocatorSpec
