\* The program headers of blank.elf.
CONSTANTS
    PageSize = 4
    EntriesPerTable = 4
    ProgramAddress = 24
    StackEnd = 12
    StackSize = 8
    MAEROS_MAX_FILE_DESCRIPTORS = 3
    Paths <- MCPaths
    Programs <- MCBlank
    MaxFailures = 0
    FileAddress = 36
    ImageAddress = 40
    StackAddress = 52
SPECIFICATION Spec
INVARIANT BssIsZero
