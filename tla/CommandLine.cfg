\* A screen of one row of three columns, a cursor that wraps at five, the kernel behind
\* thirteen cells, a buffer of four and arguments of two characters and a zero byte.
CONSTANTS
    VGA_WIDTH = 3
    VGA_HEIGHT = 1
    Word = 5
    KernelCell = 13
    Letters <- MCLetters
    Prompt = ">"
    Keys <- MCKeys
    max = 4
    ArgumentSize = 3
SPECIFICATION LineSpec
INVARIANTS CursorColumn LineOnScreen BufferIsShown ArgumentsAreWords
