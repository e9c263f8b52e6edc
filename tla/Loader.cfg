\* Loads of every kind of file along every kind of path, with up to two allocations failing.
CONSTANTS
    PageSize = 4
    EntriesPerTable = 4
    ProgramAddress = 24
    StackEnd = 12
    StackSize = 8
    MAEROS_MAX_FILE_DESCRIPTORS = 3
    Paths <- MCPaths
    Programs <- MCPrograms
    MaxFailures = 2
    FileAddress = 36
    ImageAddress = 40
    StackAddress = 52
SPECIFICATION Spec
INVARIANTS DescriptorsClosed UsesOnlyHeld RunsNamedFile LossesKnown SegmentsVisible WritesOwnFrames ExtentExact
