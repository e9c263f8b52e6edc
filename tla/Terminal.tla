------------------------------ MODULE Terminal ------------------------------
(***************************************************************************)
(* The text console of src/kernel.c: the cursor and the video memory.      *)
(* print and the putchar system call are sequences of terminal_writechar,  *)
(* one step each.                                                          *)
(*                                                                         *)
(* terminal_row and terminal_col are uint16_t: they wrap at Word.  The     *)
(* visible part of the video memory is a function from positions to        *)
(* characters.  Nothing scrolls: behind the last row writes go to memory   *)
(* that is not shown, and from the cell KernelCell on to the kernel, which *)
(* src/linker.ld puts at 1M.  What the machine does after such a write     *)
(* (overwritten) is not followed.                                          *)
(*                                                                         *)
(* line and derailed are history variables: the characters written since   *)
(* the cursor was last put at the start of a row and not erased, and       *)
(* whether a backspace has crossed that start.                             *)
(***************************************************************************)
EXTENDS Naturals, Sequences

CONSTANTS
    VGA_WIDTH,   \* 80
    VGA_HEIGHT,  \* 20
    Word,        \* 2^16
    KernelCell,  \* (0x100000 - 0xB8000) / 2, in row 1843
    Letters      \* characters other than newline and backspace

ASSUME ScreenAssumption ==
    /\ VGA_WIDTH \in Nat \ {0} /\ VGA_HEIGHT \in Nat \ {0} /\ Word \in Nat
    /\ VGA_WIDTH * VGA_HEIGHT < Word
    /\ KernelCell \in Nat /\ KernelCell >= VGA_WIDTH * VGA_HEIGHT

VARIABLES video_mem, overwritten, terminal_row, terminal_col, line, derailed

vars == <<video_mem, overwritten, terminal_row, terminal_col, line, derailed>>

BLANK == "blank"
Positions == 0 .. VGA_WIDTH * VGA_HEIGHT - 1

\* terminal_initialize: blanks everywhere, the cursor in the corner.
Init ==
    /\ video_mem = [i \in Positions |-> BLANK] /\ overwritten = FALSE
    /\ terminal_row = 0 /\ terminal_col = 0
    /\ line = <<>> /\ derailed = FALSE

-----------------------------------------------------------------------------
\* Mutant: the row ends one column late.
ColumnLate(col) == IF (col + 1) % Word > VGA_WIDTH THEN 0 ELSE (col + 1) % Word

\* The cursor moves on from column col of row row.
Column(col) == IF (col + 1) % Word >= VGA_WIDTH THEN 0 ELSE (col + 1) % Word

Row(row, col) == IF (col + 1) % Word >= VGA_WIDTH THEN (row + 1) % Word ELSE row

terminal_putchar(x, y, c) ==
    LET i == y * VGA_WIDTH + x
    IN  /\ video_mem' = [j \in Positions |-> IF j = i THEN c ELSE video_mem[j]]
        /\ overwritten' = (i >= KernelCell)

\* A character that is neither newline nor backspace.
writechar(c) ==
    /\ terminal_putchar(terminal_col, terminal_row, c)
    /\ terminal_col' = Column(terminal_col)
    /\ terminal_row' = Row(terminal_row, terminal_col)
    /\ line' = IF terminal_row' = terminal_row THEN Append(line, c) ELSE <<>>
    /\ derailed' = (derailed /\ terminal_row' = terminal_row)

newline ==
    /\ terminal_row' = (terminal_row + 1) % Word
    /\ terminal_col' = 0
    /\ line' = <<>>
    /\ derailed' = FALSE
    /\ UNCHANGED <<video_mem, overwritten>>

\* Mutant: the cursor is not moved back over the blank.
BackspaceStays ==
    /\ terminal_row # 0 \/ terminal_col # 0
    /\ LET row == IF terminal_col = 0 THEN terminal_row - 1 ELSE terminal_row
           col == IF terminal_col = 0 THEN VGA_WIDTH - 1 ELSE terminal_col - 1
       IN  /\ terminal_putchar(col, row, BLANK)
           /\ terminal_col' = Column(col)
           /\ terminal_row' = Row(row, col)
    /\ derailed' = (derailed \/ line = <<>>)
    /\ line' = IF line = <<>> THEN line ELSE SubSeq(line, 1, Len(line) - 1)

\* One column back, a blank through terminal_writechar, which moves the cursor on (to
\* the next row behind the last column), and one column back again.
terminal_backspace ==
    /\ terminal_row # 0 \/ terminal_col # 0
    /\ LET row == IF terminal_col = 0 THEN terminal_row - 1 ELSE terminal_row
           col == IF terminal_col = 0 THEN VGA_WIDTH - 1 ELSE terminal_col - 1
       IN  /\ terminal_putchar(col, row, BLANK)
           /\ terminal_col' = (Column(col) + Word - 1) % Word
           /\ terminal_row' = Row(row, col)
    /\ derailed' = (derailed \/ line = <<>>)
    /\ line' = IF line = <<>> THEN line ELSE SubSeq(line, 1, Len(line) - 1)

\* In the corner of the screen a backspace does nothing.
backspace_at_origin == terminal_row = 0 /\ terminal_col = 0 /\ UNCHANGED vars

Next ==
    \/ /\ ~overwritten
       /\ \/ \E c \in Letters : writechar(c)
          \/ newline
          \/ terminal_backspace
          \/ backspace_at_origin
    \/ overwritten /\ UNCHANGED vars

Spec == Init /\ [][Next]_vars

-----------------------------------------------------------------------------
\* Until the kernel is overwritten the cursor is in a column of the screen, or one before
\* the first (65535): no sequence of backspaces and characters takes it anywhere else.
CursorColumn == ~overwritten => terminal_col < VGA_WIDTH \/ terminal_col = Word - 1

\* What was typed since the start of the row and not erased is what the row shows, and
\* the cursor stands behind it, unless a backspace has crossed the start of the row or
\* the kernel is overwritten.
LineOnScreen ==
    ~overwritten /\ ~derailed /\ terminal_row < VGA_HEIGHT =>
        /\ terminal_col = Len(line)
        /\ \A k \in 1 .. Len(line) : video_mem[terminal_row * VGA_WIDTH + k - 1] = line[k]
=============================================================================
