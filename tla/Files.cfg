\* Three descriptors on a small disk, every order of open, seek, read and close.
CONSTANTS
    SectorSize = 4
    sectors_per_cluster = 2
    reserved_sectors = 2
    fat_copies = 1
    sectors_per_fat = 2
    root_dir_entries = 6
    ItemSize = 2
    Fat <- MCFat
    Root <- MCRoot
    Subdirs <- MCSubdirs
    MAEROS_MAX_FILE_DESCRIPTORS = 3
    MAEROS_MAX_PATH = 12
    NameWidth = 2
    ExtWidth = 1
    Word = 15
    Names <- MCNames
    Paths <- MCPaths
    DataWords <- MCDataWords
    Offsets = {0, 5}
    ReadSizes = {0, 3, 8, 9}
    Members = {1, 2}
SPECIFICATION Spec
INVARIANTS HandleIsNamedFile RefusedForReason FirstClusterExact
