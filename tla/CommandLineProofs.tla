------------------------- MODULE CommandLineProofs -------------------------
(***************************************************************************)
(* Proofs about Terminal, for every size of the screen and of the word,    *)
(* and about the program of CommandLine: it moves the terminal only in     *)
(* ways that the terminal has, so that what is proved of the terminal      *)
(* holds for it; its buffer holds what the screen shows; and its commands  *)
(* have the words of the line as arguments, for every size of the buffer.  *)
(***************************************************************************)
EXTENDS CommandLine, Induction, SequenceTheorems, FiniteSetTheorems

\* The part of the type invariant that the cursor's arithmetic needs.
CursorInv ==
    /\ terminal_row \in 0 .. Word - 1
    /\ terminal_col \in 0 .. Word - 1
    /\ terminal_col < VGA_WIDTH \/ terminal_col = Word - 1

\* The screen is narrower than the word.
LEMMA WidthFits == VGA_WIDTH \in Nat \ {0} /\ Word \in Nat \ {0} /\ VGA_WIDTH < Word
<1>1. /\ VGA_WIDTH \in Nat \ {0} /\ VGA_HEIGHT \in Nat \ {0} /\ Word \in Nat
      /\ VGA_WIDTH * VGA_HEIGHT < Word
  BY ScreenAssumption
<1>2. VGA_WIDTH <= VGA_WIDTH * VGA_HEIGHT
  BY <1>1
<1> QED
  BY <1>1, <1>2

\* The column behind a column is one of the screen: behind the last comes the first.
LEMMA ColumnType ==
    ASSUME NEW col \in 0 .. Word - 1
    PROVE  Column(col) \in 0 .. VGA_WIDTH - 1
<1>1. (col + 1) % Word \in 0 .. Word - 1
  BY WidthFits
<1> QED
  BY <1>1, WidthFits DEF Column

\* One column back in unsigned arithmetic.
LEMMA StepBack ==
    ASSUME NEW col \in 0 .. VGA_WIDTH - 1
    PROVE  (col + Word - 1) % Word = IF col = 0 THEN Word - 1 ELSE col - 1
<1>1. CASE col = 0
  <2>1. Word - 1 \in 0 .. Word - 1 /\ col + Word - 1 = Word - 1
    BY <1>1, WidthFits
  <2> QED
    BY <1>1, <2>1, WidthFits
<1>2. CASE col # 0
  <2>1. col - 1 \in 0 .. Word - 1 /\ col + Word - 1 = Word + (col - 1)
    BY <1>2, WidthFits
  <2>2. (Word + (col - 1)) % Word = col - 1
    BY <2>1, WidthFits
  <2> QED
    BY <1>2, <2>1, <2>2
<1> QED
  BY <1>1, <1>2

\* Rows stay in the word.
LEMMA RowType ==
    ASSUME NEW row \in 0 .. Word - 1, NEW col \in 0 .. Word - 1
    PROVE  /\ Row(row, col) \in 0 .. Word - 1
           /\ (row + 1) % Word \in 0 .. Word - 1
  BY WidthFits DEF Row

\* Every step keeps the cursor there.
LEMMA CursorStep == CursorInv /\ [Next]_vars => CursorInv'
<1> SUFFICES ASSUME CursorInv, [Next]_vars PROVE CursorInv'
  OBVIOUS
<1>0. terminal_row \in 0 .. Word - 1 /\ terminal_col \in 0 .. Word - 1
  BY DEF CursorInv
<1>1. CASE \E c \in Letters : writechar(c)
  <2>1. terminal_col' = Column(terminal_col) /\ terminal_row' = Row(terminal_row, terminal_col)
    BY <1>1 DEF writechar
  <2>2. Column(terminal_col) \in 0 .. VGA_WIDTH - 1
    BY <1>0, ColumnType
  <2>3. Row(terminal_row, terminal_col) \in 0 .. Word - 1
    BY <1>0, RowType
  <2> QED
    BY <2>1, <2>2, <2>3, WidthFits DEF CursorInv
<1>2. CASE newline
  BY <1>0, <1>2, RowType, WidthFits DEF newline, CursorInv
<1>3. CASE terminal_backspace
  <2> DEFINE row == IF terminal_col = 0 THEN terminal_row - 1 ELSE terminal_row
             col == IF terminal_col = 0 THEN VGA_WIDTH - 1 ELSE terminal_col - 1
  <2>1. /\ terminal_col' = (Column(col) + Word - 1) % Word
        /\ terminal_row' = Row(row, col)
        /\ terminal_row # 0 \/ terminal_col # 0
    BY <1>3 DEF terminal_backspace
  <2>2. row \in 0 .. Word - 1 /\ col \in 0 .. Word - 1
    BY <1>0, <2>1, WidthFits
  <2>3. Column(col) \in 0 .. VGA_WIDTH - 1
    BY <2>2, ColumnType
  <2>4. terminal_col' = IF Column(col) = 0 THEN Word - 1 ELSE Column(col) - 1
    BY <2>1, <2>3, StepBack
  <2>5. terminal_row' \in 0 .. Word - 1
    BY <2>1, <2>2, RowType
  <2> QED
    BY <2>3, <2>4, <2>5, WidthFits DEF CursorInv
<1>4. CASE backspace_at_origin \/ UNCHANGED vars
  BY <1>4 DEF backspace_at_origin, vars, CursorInv
<1> QED
  BY <1>1, <1>2, <1>3, <1>4 DEF Next

\* The cursor never leaves the columns of the screen, but for the one before the first:
\* for every width, height and word.
THEOREM CursorStaysInColumns == Spec => []CursorColumn
<1>1. Init => CursorInv
  BY WidthFits DEF Init, CursorInv
<1>2. CursorInv /\ [Next]_vars => CursorInv'
  BY CursorStep
<1>3. CursorInv => CursorColumn
  BY DEF CursorInv, CursorColumn
<1> QED
  BY <1>1, <1>2, <1>3, PTL DEF Spec

-----------------------------------------------------------------------------
\* The inductive invariant for the row that the cursor is in.  Rows behind the screen
\* count too: a backspace there must find the cursor behind the line as well.
LineInv ==
    /\ CursorInv
    /\ line \in Seq(Letters)
    /\ ~derailed =>
         /\ terminal_col = Len(line) /\ Len(line) < VGA_WIDTH
         /\ terminal_row < VGA_HEIGHT =>
              \A k \in 1 .. Len(line) : video_mem[terminal_row * VGA_WIDTH + k - 1] = line[k]

\* A column of a row of the screen is a position of the video memory.
LEMMA OnScreen ==
    ASSUME NEW row \in Nat, row < VGA_HEIGHT, NEW col \in Nat, col < VGA_WIDTH
    PROVE  row * VGA_WIDTH + col \in Positions
<1>1. VGA_WIDTH \in Nat /\ VGA_HEIGHT \in Nat
  BY ScreenAssumption
<1>2. PICK d \in Nat : VGA_HEIGHT = row + 1 + d
  <2>1. VGA_HEIGHT - row - 1 \in Nat /\ VGA_HEIGHT = row + 1 + (VGA_HEIGHT - row - 1)
    BY <1>1
  <2> QED
    BY <2>1
<1>3. VGA_WIDTH * VGA_HEIGHT = row * VGA_WIDTH + VGA_WIDTH + d * VGA_WIDTH
      /\ d * VGA_WIDTH \in Nat /\ row * VGA_WIDTH \in Nat
  BY <1>1, <1>2
<1> QED
  BY <1>1, <1>3 DEF Positions

\* Writing at one column leaves the columns before it.
LEMMA PutcharKeeps ==
    ASSUME NEW row \in Nat, row < VGA_HEIGHT, NEW col \in Nat, col < VGA_WIDTH, NEW c,
           terminal_putchar(col, row, c)
    PROVE  /\ video_mem'[row * VGA_WIDTH + col] = c
           /\ \A k \in 1 .. col : video_mem'[row * VGA_WIDTH + k - 1] = video_mem[row * VGA_WIDTH + k - 1]
<1> DEFINE base == row * VGA_WIDTH
<1>0. VGA_WIDTH \in Nat
  BY ScreenAssumption
<1>1. base \in Nat
  BY <1>0
<1>2. \A j \in Positions : video_mem'[j] = IF j = base + col THEN c ELSE video_mem[j]
  BY DEF terminal_putchar
<1>3. \A k \in Nat : k < VGA_WIDTH => base + k \in Positions
  BY OnScreen
<1> HIDE DEF base
<1>4. video_mem'[base + col] = c
  BY <1>2, <1>3
<1>5. ASSUME NEW k \in 1 .. col
      PROVE  video_mem'[base + k - 1] = video_mem[base + k - 1]
  <2>1. k - 1 \in Nat /\ k - 1 < VGA_WIDTH /\ base + (k - 1) = base + k - 1 /\ base + k - 1 # base + col
    BY <1>0, <1>1
  <2>2. base + k - 1 \in Positions
    BY <1>3, <2>1
  <2> QED
    BY <1>2, <2>1, <2>2
<1> QED
  BY <1>4, <1>5 DEF base

\* The cursor after a character at a column of the screen.
LEMMA Advance ==
    ASSUME NEW row \in 0 .. Word - 1, NEW col \in Nat, col < VGA_WIDTH
    PROVE  /\ Column(col) = IF col + 1 = VGA_WIDTH THEN 0 ELSE col + 1
           /\ Row(row, col) = IF col + 1 = VGA_WIDTH THEN (row + 1) % Word ELSE row
           /\ (row + 1) % Word # row
<1>1. col + 1 \in 0 .. Word - 1 /\ Word > 1
  BY WidthFits
<1>2. (col + 1) % Word = col + 1
  BY <1>1, WidthFits
<1>3. (row + 1) % Word # row
  <2>1. CASE row = Word - 1
    <3>1. row + 1 = Word /\ Word % Word = 0
      BY <2>1, WidthFits
    <3> QED
      BY <1>1, <2>1, <3>1, WidthFits
  <2>2. CASE row # Word - 1
    <3>1. row + 1 \in 0 .. Word - 1
      BY <2>2, WidthFits
    <3>2. (row + 1) % Word = row + 1
      BY <3>1, WidthFits
    <3> QED
      BY <3>2
  <2> QED
    BY <2>1, <2>2
<1> QED
  BY <1>1, <1>2, <1>3, WidthFits DEF Column, Row

\* A character.
LEMMA WriteKeepsLine ==
    ASSUME LineInv, NEW c \in Letters, writechar(c)
    PROVE  /\ line' \in Seq(Letters)
           /\ ~derailed' =>
                /\ terminal_col' = Len(line') /\ Len(line') < VGA_WIDTH
                /\ terminal_row' < VGA_HEIGHT =>
                     \A k \in 1 .. Len(line') :
                        video_mem'[terminal_row' * VGA_WIDTH + k - 1] = line'[k]
<1> DEFINE row == terminal_row
           col == terminal_col
<1>1. /\ row \in 0 .. Word - 1 /\ col \in 0 .. Word - 1 /\ line \in Seq(Letters)
      /\ row \in Nat /\ col \in Nat
      /\ VGA_WIDTH \in Nat \ {0} /\ Word \in Nat \ {0} /\ VGA_WIDTH < Word
  BY WidthFits DEF LineInv, CursorInv
<1>2. /\ terminal_putchar(col, row, c)
      /\ terminal_col' = Column(col) /\ terminal_row' = Row(row, col)
      /\ line' = IF terminal_row' = row THEN Append(line, c) ELSE <<>>
      /\ derailed' = (derailed /\ terminal_row' = row)
  BY DEF writechar
<1>3. line' \in Seq(Letters)
  BY <1>1, <1>2
<1>4. ASSUME ~derailed'
      PROVE  /\ terminal_col' = Len(line') /\ Len(line') < VGA_WIDTH
             /\ terminal_row' < VGA_HEIGHT =>
                  \A k \in 1 .. Len(line') :
                     video_mem'[terminal_row' * VGA_WIDTH + k - 1] = line'[k]
  <2>1. CASE terminal_row' # row
    <3>1. Column(col) = 0
      BY <1>2, <2>1 DEF Column, Row
    <3> QED
      BY <1>1, <1>2, <2>1, <3>1
  <2>2. CASE terminal_row' = row
    <3>1. ~derailed /\ col = Len(line) /\ col < VGA_WIDTH
      BY <1>2, <1>4, <2>2 DEF LineInv
    <3>2. terminal_col' = col + 1 /\ col + 1 < VGA_WIDTH
      <4>1. /\ Column(col) = IF col + 1 = VGA_WIDTH THEN 0 ELSE col + 1
            /\ Row(row, col) = IF col + 1 = VGA_WIDTH THEN (row + 1) % Word ELSE row
            /\ (row + 1) % Word # row
        BY <1>1, <3>1, Advance
      <4>2. /\ row = Row(row, col) /\ terminal_col' = Column(col)
            /\ col \in Nat /\ col < VGA_WIDTH /\ VGA_WIDTH \in Nat
        BY <1>1, <1>2, <2>2, <3>1
      <4>3. CASE col + 1 = VGA_WIDTH
        BY <4>1, <4>2, <4>3
      <4>4. CASE col + 1 # VGA_WIDTH
        BY <4>1, <4>2, <4>4
      <4> QED
        BY <4>3, <4>4
    <3>3. /\ Len(line') = col + 1 /\ line'[col + 1] = c
          /\ \A k \in 1 .. col : line'[k] = line[k]
      BY <1>1, <1>2, <2>2, <3>1
    <3>4. ASSUME row < VGA_HEIGHT, NEW k \in 1 .. Len(line')
          PROVE  video_mem'[row * VGA_WIDTH + k - 1] = line'[k]
      <4>1. /\ video_mem'[row * VGA_WIDTH + col] = c
            /\ \A j \in 1 .. col :
                 video_mem'[row * VGA_WIDTH + j - 1] = video_mem[row * VGA_WIDTH + j - 1]
        BY <1>1, <1>2, <3>1, <3>4, PutcharKeeps
      <4>2. CASE k = col + 1
        <5>1. row * VGA_WIDTH + k - 1 = row * VGA_WIDTH + col
          BY <1>1, <4>2
        <5> QED
          BY <3>3, <4>1, <4>2, <5>1
      <4>3. CASE k # col + 1
        <5>1. k \in 1 .. col
          BY <1>1, <3>3, <4>3
        <5>2. video_mem[row * VGA_WIDTH + k - 1] = line[k]
          BY <3>1, <3>4, <5>1 DEF LineInv
        <5> QED
          BY <3>3, <4>1, <5>1, <5>2
      <4> QED
        BY <4>2, <4>3
    <3> QED
      BY <2>2, <3>2, <3>3, <3>4
  <2> QED
    BY <2>1, <2>2
<1> QED
  BY <1>3, <1>4

\* A backspace behind at least one character of the line.
LEMMA BackspaceInLine ==
    ASSUME LineInv, terminal_backspace, ~derailed, line # <<>>
    PROVE  /\ terminal_row' = terminal_row /\ terminal_col' = terminal_col - 1
           /\ terminal_col \in 1 .. VGA_WIDTH - 1
           /\ terminal_putchar(terminal_col - 1, terminal_row, BLANK)
           /\ Len(line') = Len(line) - 1 /\ \A k \in 1 .. Len(line) - 1 : line'[k] = line[k]
<1>1. /\ terminal_col = Len(line) /\ terminal_col < VGA_WIDTH
      /\ terminal_row \in 0 .. Word - 1 /\ line \in Seq(Letters)
      /\ VGA_WIDTH \in Nat \ {0} /\ Word \in Nat \ {0} /\ VGA_WIDTH < Word
  BY WidthFits DEF LineInv, CursorInv
<1>2. terminal_col \in Nat /\ terminal_col # 0
  BY <1>1
<1> DEFINE col == terminal_col - 1
<1>3. /\ terminal_putchar(col, terminal_row, BLANK)
      /\ terminal_col' = (Column(col) + Word - 1) % Word
      /\ terminal_row' = Row(terminal_row, col)
      /\ line' = SubSeq(line, 1, Len(line) - 1)
  BY <1>2 DEF terminal_backspace
<1>4. col \in Nat /\ col < VGA_WIDTH /\ col + 1 # VGA_WIDTH /\ col + 1 = terminal_col
  BY <1>1, <1>2
<1>5. Column(col) = terminal_col /\ Row(terminal_row, col) = terminal_row
  BY <1>1, <1>4, Advance
<1>6. terminal_col \in 0 .. VGA_WIDTH - 1
  BY <1>1, <1>2
<1>7. terminal_col' = terminal_col - 1
  BY <1>2, <1>3, <1>5, <1>6, StepBack
<1>8. Len(line') = Len(line) - 1 /\ \A k \in 1 .. Len(line) - 1 : line'[k] = line[k]
  BY <1>1, <1>2, <1>3
<1> QED
  BY <1>1, <1>2, <1>3, <1>5, <1>7, <1>8, SMTT(30)

\* Every step keeps what the row shows and what was typed the same.
LEMMA LineStep == LineInv /\ [Next]_vars => LineInv'
<1> SUFFICES ASSUME LineInv, [Next]_vars PROVE LineInv'
  OBVIOUS
<1>0. CursorInv'
  BY CursorStep DEF LineInv
<1>1. CASE \E c \in Letters : writechar(c)
  BY <1>0, <1>1, WriteKeepsLine DEF LineInv
<1>2. CASE newline
  BY <1>0, <1>2, WidthFits DEF newline, LineInv
<1>3. CASE terminal_backspace
  <2>1. line' \in Seq(Letters)
    BY <1>3 DEF terminal_backspace, LineInv
  <2>2. ASSUME ~derailed'
        PROVE  /\ terminal_col' = Len(line') /\ Len(line') < VGA_WIDTH
               /\ terminal_row' < VGA_HEIGHT =>
                    \A k \in 1 .. Len(line') :
                       video_mem'[terminal_row' * VGA_WIDTH + k - 1] = line'[k]
    <3>1. ~derailed /\ line # <<>>
      BY <1>3, <2>2 DEF terminal_backspace
    <3>2. /\ terminal_row' = terminal_row /\ terminal_col' = terminal_col - 1
          /\ terminal_col \in 1 .. VGA_WIDTH - 1 /\ terminal_col = Len(line)
          /\ terminal_putchar(terminal_col - 1, terminal_row, BLANK)
          /\ Len(line') = Len(line) - 1 /\ \A k \in 1 .. Len(line) - 1 : line'[k] = line[k]
      BY <1>3, <3>1, BackspaceInLine DEF LineInv
    <3>3. terminal_row \in Nat /\ terminal_col - 1 \in Nat /\ terminal_col - 1 < VGA_WIDTH
      BY <3>2, WidthFits DEF LineInv, CursorInv
    <3>4. ASSUME terminal_row < VGA_HEIGHT, NEW k \in 1 .. terminal_col - 1
          PROVE  video_mem'[terminal_row * VGA_WIDTH + k - 1] = line'[k]
      <4>1. video_mem'[terminal_row * VGA_WIDTH + k - 1] = video_mem[terminal_row * VGA_WIDTH + k - 1]
        BY <3>2, <3>3, <3>4, PutcharKeeps
      <4>2. k \in 1 .. Len(line)
        BY <3>2, <3>3
      <4>3. video_mem[terminal_row * VGA_WIDTH + k - 1] = line[k]
        BY <3>1, <3>4, <4>2 DEF LineInv
      <4> QED
        BY <3>2, <4>1, <4>3
    <3> QED
      BY <3>2, <3>3, <3>4
  <2> QED
    BY <1>0, <2>1, <2>2 DEF LineInv
<1>4. CASE backspace_at_origin \/ UNCHANGED vars
  BY <1>0, <1>4 DEF backspace_at_origin, vars, LineInv
<1> QED
  BY <1>1, <1>2, <1>3, <1>4 DEF Next

\* What was typed since the start of the row and not erased is what the row shows, for
\* every screen, however rows wrap and backspaces cross them before.
THEOREM LineStaysOnScreen == Spec => []LineOnScreen
<1>1. Init => LineInv
  BY WidthFits DEF Init, LineInv, CursorInv
<1>2. LineInv /\ [Next]_vars => LineInv'
  BY LineStep
<1>3. LineInv => LineOnScreen
  BY DEF LineInv, LineOnScreen
<1> QED
  BY <1>1, <1>2, <1>3, PTL DEF Spec
-----------------------------------------------------------------------------
\* Each step of the program is a step of the terminal, or leaves it alone.
LEMMA LineStepIsTerminalStep == [LineNext]_allVars => [Next]_vars
<1> SUFFICES ASSUME [LineNext]_allVars PROVE [Next]_vars
  OBVIOUS
<1>1. CASE ~overwritten /\ print_prompt
  BY <1>1, PromptAssumption DEF print_prompt, Next
<1>2. ASSUME ~overwritten, NEW key \in Keys \cup {BACKSPACE}, peachos_terminal_readline(key)
      PROVE  [Next]_vars
  <2>1. Echo(key)
    BY <1>2 DEF peachos_terminal_readline
  <2>2. key = BACKSPACE \/ key \in Letters
    BY PromptAssumption
  <2> QED
    BY <1>2, <2>1, <2>2, Zenon DEF Echo, Next
<1>3. CASE ~overwritten /\ LineRead
  BY <1>3 DEF LineRead, Next
<1>4. CASE \/ \E junk \in [Buffer -> {NUL} \cup Keys] : ParseStarts(junk)
           \/ StrayPointer \/ NextArgument \/ MallocFails \/ ParseEnds
           \/ maeros_system_run \/ UNCHANGED allVars
  BY <1>4, Zenon DEF ParseStarts, StrayPointer, NextArgument, MallocFails, ParseEnds,
                     maeros_system_run, allVars
<1> QED
  BY <1>1, <1>2, <1>3, <1>4 DEF LineNext

\* The command line uses the terminal as the terminal is specified.
THEOREM LineUsesTerminal == LineSpec => Spec
<1>1. LineInit => Init
  BY DEF LineInit
<1> QED
  BY <1>1, LineStepIsTerminalStep, PTL DEF LineSpec, Spec

\* Whatever is typed, the cursor stays in the columns of the screen, or one before.
THEOREM LineCursorStays == LineSpec => []CursorColumn
  BY LineUsesTerminal, CursorStaysInColumns, PTL

\* And the row shows what was typed: the property of the terminal holds here too.
THEOREM LineIsOnScreen == LineSpec => []LineOnScreen
  BY LineUsesTerminal, LineStaysOnScreen, PTL

-----------------------------------------------------------------------------
\* The inductive invariant for what readline has in its buffer.  The terminal's own
\* invariant is part of it: it says that the cursor is not in the corner when readline
\* has something to erase.
BufferInv ==
    /\ LineInv
    /\ out \in [Buffer -> Letters \cup {NUL, BACKSPACE}]
    /\ i \in 0 .. max - 1
    /\ phase # "read" => line = <<>> /\ ~derailed
    /\ phase = "read" /\ ~spoiled =>
         /\ ~derailed
         /\ Len(line) = i + 1 /\ line[1] = Prompt
         /\ \A k \in 1 .. i : line[k + 1] = out[k - 1]

\* A key.
LEMMA KeyKeepsBuffer ==
    ASSUME BufferInv, LineInv', NEW key \in Keys \cup {BACKSPACE},
           peachos_terminal_readline(key)
    PROVE  BufferInv'
<1>1. /\ phase = "read" /\ phase' = "read" /\ i < max - 1 /\ Echo(key)
      /\ IF key = BACKSPACE /\ i >= 1
         THEN out' = [out EXCEPT ![i - 1] = NUL] /\ i' = i - 1
         ELSE out' = [out EXCEPT ![i] = key] /\ i' = i + 1
      /\ spoiled' = (spoiled \/ (key = BACKSPACE /\ i = 0) \/ terminal_row' # terminal_row)
  BY DEF peachos_terminal_readline
<1>2. /\ i \in 0 .. max - 1 /\ max \in Nat \ {0} /\ line \in Seq(Letters)
      /\ out \in [Buffer -> Letters \cup {NUL, BACKSPACE}]
  BY MaxAssumption DEF BufferInv, LineInv
<1>3. /\ out' \in [Buffer -> Letters \cup {NUL, BACKSPACE}] /\ i' \in 0 .. max - 1
  <2>1. CASE key = BACKSPACE /\ i >= 1
    BY <1>1, <1>2, <2>1
  <2>2. CASE ~(key = BACKSPACE /\ i >= 1)
    <3>1. key \in Letters \cup {NUL, BACKSPACE}
      BY PromptAssumption
    <3> QED
      BY <1>1, <1>2, <2>2, <3>1
  <2> QED
    BY <2>1, <2>2
<1>4. ASSUME ~spoiled'
      PROVE  /\ ~derailed'
             /\ Len(line') = i' + 1 /\ line'[1] = Prompt
             /\ \A k \in 1 .. i' : line'[k + 1] = out'[k - 1]
  <2>1. /\ ~spoiled /\ terminal_row' = terminal_row /\ ~(key = BACKSPACE /\ i = 0)
    BY <1>1, <1>4
  <2>2. /\ ~derailed /\ Len(line) = i + 1 /\ line[1] = Prompt
        /\ \A k \in 1 .. i : line[k + 1] = out[k - 1]
    BY <1>1, <2>1 DEF BufferInv
  <2>3. CASE key = BACKSPACE
    <3>1. terminal_backspace
      <4>1. terminal_col = Len(line)
        BY <2>2 DEF BufferInv, LineInv
      <4>2. ~backspace_at_origin
        BY <1>2, <2>2, <4>1 DEF backspace_at_origin
      <4> QED
        BY <1>1, <2>3, <4>2, Zenon DEF Echo
    <3>2. line # <<>> /\ LineInv
      BY <1>2, <2>2 DEF BufferInv
    <3>3. Len(line') = Len(line) - 1 /\ \A k \in 1 .. Len(line) - 1 : line'[k] = line[k]
      BY <2>2, <3>1, <3>2, BackspaceInLine
    <3>4. ~derailed'
      BY <2>2, <3>1, <3>2 DEF terminal_backspace
    <3>5. i >= 1 /\ i' = i - 1 /\ out' = [out EXCEPT ![i - 1] = NUL]
      BY <1>1, <1>2, <2>1, <2>3
    <3>6. ASSUME NEW k \in 1 .. i'
          PROVE  line'[k + 1] = out'[k - 1]
      <4>1. k \in 1 .. i /\ k + 1 \in 1 .. Len(line) - 1 /\ k - 1 \in Buffer /\ k - 1 # i - 1
        BY <1>2, <2>2, <3>5 DEF Buffer
      <4>2. out'[k - 1] = out[k - 1]
        BY <1>2, <3>5, <4>1
      <4> QED
        BY <2>2, <3>3, <4>1, <4>2
    <3>7. line'[1] = Prompt
      <4>1. 1 \in 1 .. Len(line) - 1
        BY <1>2, <2>2, <3>5
      <4> QED
        BY <2>2, <3>3, <4>1
    <3> QED
      BY <1>2, <2>2, <3>3, <3>4, <3>5, <3>6, <3>7
  <2>4. CASE key # BACKSPACE
    <3>1. writechar(key) /\ i' = i + 1 /\ out' = [out EXCEPT ![i] = key]
      BY <1>1, <2>4 DEF Echo
    <3>2. line' = Append(line, key) /\ ~derailed'
      BY <2>1, <2>2, <3>1 DEF writechar
    <3>3. key \in Letters
      BY <2>4, PromptAssumption
    <3>4. /\ Len(line') = Len(line) + 1 /\ line'[Len(line) + 1] = key
          /\ \A k \in 1 .. Len(line) : line'[k] = line[k]
      BY <1>2, <3>2, <3>3
    <3>5. ASSUME NEW k \in 1 .. i'
          PROVE  line'[k + 1] = out'[k - 1]
      <4>1. CASE k = i + 1
        BY <1>2, <2>2, <3>1, <3>4, <4>1 DEF Buffer
      <4>2. CASE k # i + 1
        <5>1. k \in 1 .. i /\ k + 1 \in 1 .. Len(line) /\ k - 1 \in Buffer /\ k - 1 # i
          BY <1>2, <2>2, <3>1, <4>2 DEF Buffer
        <5>2. out'[k - 1] = out[k - 1]
          BY <1>2, <3>1, <5>1
        <5> QED
          BY <2>2, <3>4, <5>1, <5>2
      <4> QED
        BY <4>1, <4>2
    <3>6. line'[1] = Prompt
      BY <1>2, <2>2, <3>4
    <3> QED
      BY <1>2, <2>2, <3>1, <3>2, <3>4, <3>5, <3>6
  <2> QED
    BY <2>3, <2>4
<1> QED
  BY <1>1, <1>3, <1>4 DEF BufferInv

\* At the start the buffer and the row are empty.
LEMMA StartsShown == LineInit => BufferInv
<1> SUFFICES ASSUME LineInit PROVE BufferInv
  OBVIOUS
<1>1. LineInv
  BY WidthFits DEF LineInit, Init, LineInv, CursorInv
<1> QED
  BY <1>1, MaxAssumption DEF LineInit, Init, BufferInv

\* Every step preserves the invariant.
LEMMA BufferStep == BufferInv /\ [LineNext]_allVars => BufferInv'
<1> SUFFICES ASSUME BufferInv, [LineNext]_allVars PROVE BufferInv'
  OBVIOUS
<1>0. LineInv'
  BY LineStep, LineStepIsTerminalStep DEF BufferInv
<1>1. CASE print_prompt
  <2>1. /\ phase = "prompt" /\ phase' = "read" /\ i' = 0 /\ out' = out
        /\ spoiled' = (terminal_row' # terminal_row) /\ writechar(Prompt)
    BY <1>1 DEF print_prompt
  <2>2. line = <<>> /\ ~derailed /\ i' \in 0 .. max - 1
    BY <2>1, MaxAssumption DEF BufferInv
  <2>3. ASSUME ~spoiled'
        PROVE  line' = <<Prompt>> /\ ~derailed'
    <3>1. terminal_row' = terminal_row
      BY <2>1, <2>3
    <3>2. line' = Append(<<>>, Prompt) /\ ~derailed'
      BY <2>1, <2>2, <3>1 DEF writechar
    <3> QED
      BY <3>2
  <2> QED
    BY <1>0, <2>1, <2>2, <2>3 DEF BufferInv
<1>2. ASSUME NEW key \in Keys \cup {BACKSPACE}, peachos_terminal_readline(key) PROVE BufferInv'
  BY <1>0, <1>2, KeyKeepsBuffer
<1>3. CASE LineRead
  <2>1. /\ phase' = "parse" /\ line' = <<>> /\ ~derailed' /\ i' = i
        /\ out' = [out EXCEPT ![i] = NUL]
    BY <1>3 DEF LineRead, newline
  <2>2. out' \in [Buffer -> Letters \cup {NUL, BACKSPACE}]
    BY <2>1 DEF BufferInv
  <2> QED
    BY <1>0, <2>1, <2>2 DEF BufferInv
<1>4. CASE (\E junk \in [Buffer -> {NUL} \cup Keys] : ParseStarts(junk)) \/ StrayPointer
           \/ NextArgument \/ MallocFails \/ ParseEnds
  <2>1. /\ phase # "read" /\ phase' # "read" /\ out' = out /\ i' = i
        /\ line' = line /\ derailed' = derailed
    BY <1>4 DEF ParseStarts, StrayPointer, NextArgument, MallocFails, ParseEnds, vars
  <2> QED
    BY <1>0, <2>1 DEF BufferInv
<1>5. CASE maeros_system_run
  <2>1. /\ phase # "read" /\ phase' # "read" /\ i' = 0
        /\ out' = [k \in Buffer |-> NUL] /\ line' = line /\ derailed' = derailed
    BY <1>5 DEF maeros_system_run, vars
  <2>2. out' \in [Buffer -> Letters \cup {NUL, BACKSPACE}] /\ i' \in 0 .. max - 1
    BY <2>1, MaxAssumption
  <2> QED
    BY <1>0, <2>1, <2>2 DEF BufferInv
<1>6. CASE UNCHANGED allVars
  BY <1>0, <1>6 DEF BufferInv, allVars, vars, lineVars
<1> QED
  BY <1>1, <1>2, <1>3, <1>4, <1>5, <1>6 DEF LineNext

\* For every screen, buffer and mixture of characters and backspaces that stays in the
\* row of the prompt: the buffer that peachos_terminal_readline fills is what the row
\* shows behind the prompt.
THEOREM ReadlineBufferIsShown == LineSpec => []BufferIsShown
<1>1. LineInit => BufferInv
  BY StartsShown
<1>2. BufferInv /\ [LineNext]_allVars => BufferInv'
  BY BufferStep
<1>3. BufferInv => BufferIsShown
  <2> SUFFICES ASSUME BufferInv, phase = "read", ~spoiled
               PROVE  line = <<Prompt>> \o [k \in 1 .. i |-> out[k - 1]]
    BY DEF BufferIsShown
  <2> DEFINE f == [k \in 1 .. i |-> out[k - 1]]
             all == Letters \cup {NUL, BACKSPACE}
  <2>1. /\ i \in Nat /\ line \in Seq(all) /\ Len(line) = i + 1 /\ line[1] = Prompt
        /\ \A k \in 1 .. i : line[k + 1] = out[k - 1]
    BY MaxAssumption DEF BufferInv, LineInv
  <2>2. f \in Seq(all) /\ Len(f) = i
    <3>1. \A k \in 1 .. i : out[k - 1] \in all
      BY MaxAssumption DEF BufferInv, Buffer
    <3> QED
      BY <2>1, <3>1
  <2>3. <<Prompt>> \in Seq(all)
    BY PromptAssumption
  <2>4. /\ <<Prompt>> \o f \in Seq(all) /\ Len(<<Prompt>> \o f) = i + 1
        /\ (<<Prompt>> \o f)[1] = Prompt
        /\ \A k \in 1 .. i : (<<Prompt>> \o f)[k + 1] = out[k - 1]
    BY <2>1, <2>2, <2>3
  <2> HIDE DEF f, all
  <2>5. \A k \in 1 .. i + 1 : line[k] = (<<Prompt>> \o f)[k]
    <3> SUFFICES ASSUME NEW k \in 1 .. i + 1, k # 1 PROVE line[k] = (<<Prompt>> \o f)[k]
      BY <2>1, <2>4
    <3>1. k - 1 \in 1 .. i /\ (k - 1) + 1 = k
      BY <2>1
    <3> QED
      BY <2>1, <2>4, <3>1
  <2>6. line = <<Prompt>> \o f
    BY <2>1, <2>4, <2>5
  <2> QED
    BY <2>6 DEF f
<1> QED
  BY <1>1, <1>2, <1>3, PTL DEF LineSpec

-----------------------------------------------------------------------------
Chars == Letters \cup {NUL, BACKSPACE}

\* From k on there is a first index in T, or there is none up to m.
LEMMA FirstFrom ==
    ASSUME NEW k \in Nat, NEW m \in Nat, k <= m, NEW T
    PROVE  \E j \in k .. m : (j = m \/ j \in T) /\ \A h \in k .. j - 1 : h \notin T
<1> DEFINE U == {j \in k .. m : j = m \/ j \in T}
<1>1. U \subseteq Nat /\ U # {}
  OBVIOUS
<1>2. PICK j \in U : \A h \in U : j <= h
  <2> HIDE DEF U
  <2> QED
    BY <1>1, LeastOf
<1>3. ASSUME NEW h \in k .. j - 1 PROVE h \notin T
  <2>1. h \in k .. m /\ ~(j <= h)
    BY <1>2
  <2> QED
    BY <1>2, <2>1
<1> QED
  BY <1>2, <1>3

\* Where a string in memory ends.
Ends(mem, k, e) ==
    /\ e \in k .. max /\ (e = max \/ mem[e] = NUL)
    /\ \A h \in k .. e - 1 : mem[h] # NUL

\* It ends somewhere.
LEMMA StringEnds ==
    ASSUME NEW mem, NEW k \in 0 .. max
    PROVE  \E e \in k .. max : Ends(mem, k, e)
<1> DEFINE T == {h \in Nat : mem[h] = NUL}
<1>1. k \in Nat /\ max \in Nat /\ k <= max
  BY MaxAssumption
<1>2. PICK e \in k .. max : (e = max \/ e \in T) /\ \A h \in k .. e - 1 : h \notin T
  <2> HIDE DEF T
  <2> QED
    BY <1>1, FirstFrom
<1>3. \A h \in k .. e - 1 : mem[h] # NUL
  BY <1>1, <1>2
<1> QED
  BY <1>2, <1>3 DEF Ends

\* Only there.
LEMMA EndsOnce ==
    ASSUME NEW mem, NEW k \in 0 .. max, NEW e, NEW f, Ends(mem, k, e), Ends(mem, k, f)
    PROVE  e = f
<1>1. k \in Nat /\ max \in Nat /\ e \in k .. max /\ f \in k .. max
  BY MaxAssumption DEF Ends
<1>2. ~(e < f) /\ ~(f < e)
  BY <1>1 DEF Ends
<1> QED
  BY <1>1, <1>2

\* The string is what stands before its end.
LEMMA StringIs ==
    ASSUME NEW mem, NEW k \in 0 .. max, NEW e, Ends(mem, k, e)
    PROVE  /\ String(mem, k) = [h \in 1 .. e - k |-> mem[k + h - 1]]
           /\ Len(String(mem, k)) = e - k
           /\ \A h \in 1 .. e - k : String(mem, k)[h] = mem[k + h - 1]
<1> DEFINE end == CHOOSE j \in k .. max :
                    /\ j = max \/ mem[j] = NUL
                    /\ \A h \in k .. j - 1 : mem[h] # NUL
<1>1. end \in k .. max /\ (end = max \/ mem[end] = NUL) /\ \A h \in k .. end - 1 : mem[h] # NUL
  BY Zenon DEF Ends
<1>2. Ends(mem, k, end)
  <2> HIDE DEF end
  <2> QED
    BY <1>1 DEF Ends
<1>3. String(mem, k) = [h \in 1 .. end - k |-> mem[k + h - 1]]
  BY Zenon DEF String
<1> HIDE DEF end
<1>4. end = e
  BY <1>2, EndsOnce
<1>5. String(mem, k) = [h \in 1 .. e - k |-> mem[k + h - 1]]
  BY <1>3, <1>4
<1>6. e - k \in Nat
  BY MaxAssumption DEF Ends
<1> QED
  BY <1>5, <1>6

\* SkipOver stops at the first character that is none of cs, or at the end of the buffer.
LEMMA SkipOverIs ==
    ASSUME NEW mem, NEW k \in 0 .. max, NEW cs
    PROVE  LET j == SkipOver(mem, k, cs)
           IN  /\ j \in k .. max /\ (j = max \/ mem[j] \notin cs)
               /\ \A h \in k .. j - 1 : mem[h] \in cs
<1> DEFINE T == {h \in Nat : mem[h] \notin cs}
<1>1. k \in Nat /\ max \in Nat /\ k <= max
  BY MaxAssumption
<1>2. PICK e \in k .. max : (e = max \/ e \in T) /\ \A h \in k .. e - 1 : h \notin T
  <2> HIDE DEF T
  <2> QED
    BY <1>1, FirstFrom
<1>3. (e = max \/ mem[e] \notin cs) /\ \A h \in k .. e - 1 : mem[h] \in cs
  BY <1>1, <1>2
<1> HIDE DEF T
<1> QED
  BY <1>2, <1>3, Zenon DEF SkipOver

\* What strtok computes with its LETs named: it starts behind the spaces from p on, at
\* start, and stops at the first space or at the end of the string.
Stops(mem, start, end, stop) ==
    /\ stop \in start .. end /\ (stop = end \/ mem[stop] = SPACE)
    /\ \A h \in start .. stop - 1 : mem[h] # SPACE

Found(mem, r, start, end, stop) ==
    r = IF start = max \/ mem[start] = NUL
        THEN [mem |-> mem, sp |-> NoPointer, token |-> NoPointer]
        ELSE IF stop < end
        THEN [mem |-> [mem EXCEPT ![stop] = NUL], sp |-> stop + 1, token |-> start]
        ELSE [mem |-> mem, sp |-> stop, token |-> start]

\* strtok does that for some start, end and stop.
LEMMA StrtokIs ==
    ASSUME NEW mem, NEW p \in 0 .. max
    PROVE  \E start \in p .. max, end \in 0 .. max, stop \in 0 .. max :
              /\ start = max \/ mem[start] # SPACE
              /\ \A h \in p .. start - 1 : mem[h] = SPACE
              /\ Ends(mem, start, end) /\ Stops(mem, start, end, stop)
              /\ Found(mem, strtok(mem, p), start, end, stop)
<1> DEFINE start == SkipOver(mem, p, {SPACE})
           end == start + Len(String(mem, start))
           stop == CHOOSE j \in start .. end :
                     (j = end \/ mem[j] = SPACE) /\ \A h \in start .. j - 1 : mem[h] # SPACE
<1>1. /\ start \in p .. max /\ (start = max \/ mem[start] \notin {SPACE})
      /\ \A h \in p .. start - 1 : mem[h] \in {SPACE}
  BY SkipOverIs
<1>2. Found(mem, strtok(mem, p), start, end, stop)
  BY Zenon DEF Found, strtok
<1> HIDE DEF start
<1>3. start \in 0 .. max
  BY <1>1, MaxAssumption
<1>4. PICK e \in start .. max : Ends(mem, start, e)
  BY <1>3, StringEnds
<1>5. end = e
  <2>1. Len(String(mem, start)) = e - start
    BY <1>3, <1>4, StringIs
  <2> QED
    BY <1>3, <1>4, <2>1, MaxAssumption
<1> HIDE DEF end
<1>6. \E j \in start .. end : (j = end \/ mem[j] = SPACE) /\ \A h \in start .. j - 1 : mem[h] # SPACE
  <2> DEFINE T == {h \in Nat : mem[h] = SPACE}
  <2>1. start \in Nat /\ end \in Nat /\ start <= end
    BY <1>3, <1>4, <1>5, MaxAssumption
  <2>2. PICK j \in start .. end : (j = end \/ j \in T) /\ \A h \in start .. j - 1 : h \notin T
    <3> HIDE DEF T
    <3> QED
      BY <2>1, FirstFrom
  <2>3. (j = end \/ mem[j] = SPACE) /\ \A h \in start .. j - 1 : mem[h] # SPACE
    BY <2>1, <2>2
  <2> HIDE DEF T
  <2> QED
    BY <2>3
<1>7. /\ stop \in start .. end /\ (stop = end \/ mem[stop] = SPACE)
      /\ \A h \in start .. stop - 1 : mem[h] # SPACE
  BY <1>6, Zenon
<1> HIDE DEF stop
<1>8. Stops(mem, start, end, stop)
  BY <1>7 DEF Stops
<1>9. end \in 0 .. max /\ stop \in 0 .. max
  BY <1>3, <1>4, <1>5, <1>7, MaxAssumption
<1>10. /\ start = max \/ mem[start] # SPACE
       /\ \A h \in p .. start - 1 : mem[h] = SPACE
  BY <1>1
<1> QED
  BY <1>1, <1>2, <1>4, <1>5, <1>8, <1>9, <1>10

\* Whatever is in memory, strtok has a pointer behind it exactly if it has found a token.
LEMMA StrtokType ==
    ASSUME NEW mem \in [Buffer -> Chars], NEW p \in 0 .. max
    PROVE  /\ strtok(mem, p).mem \in [Buffer -> Chars]
           /\ strtok(mem, p).sp \in {NoPointer} \cup 0 .. max
           /\ strtok(mem, p).token \in {NoPointer} \cup 0 .. max
           /\ strtok(mem, p).sp = NoPointer <=> strtok(mem, p).token = NoPointer
<1> DEFINE r == strtok(mem, p)
<1>1. PICK start \in p .. max, end \in 0 .. max, stop \in 0 .. max :
              /\ Ends(mem, start, end) /\ Stops(mem, start, end, stop)
              /\ Found(mem, r, start, end, stop)
  BY StrtokIs, Zenon
<1>2. max \in Nat /\ end <= max /\ stop \in start .. end /\ start \in Nat
  BY <1>1, MaxAssumption DEF Stops
<1> HIDE DEF r
<1>3. CASE start = max \/ mem[start] = NUL
  BY <1>1, <1>3 DEF Found, r
<1>4. CASE ~(start = max \/ mem[start] = NUL) /\ stop < end
  <2>1. r = [mem |-> [mem EXCEPT ![stop] = NUL], sp |-> stop + 1, token |-> start]
    BY <1>1, <1>4 DEF Found
  <2>2. stop + 1 \in 0 .. max /\ start \in 0 .. max /\ start # NoPointer /\ stop + 1 # NoPointer
    BY <1>2, <1>4 DEF NoPointer
  <2>3. [mem EXCEPT ![stop] = NUL] \in [Buffer -> Chars]
    BY DEF Chars
  <2> QED
    BY <2>1, <2>2, <2>3 DEF r
<1>5. CASE ~(start = max \/ mem[start] = NUL) /\ ~(stop < end)
  <2>1. r = [mem |-> mem, sp |-> stop, token |-> start]
    BY <1>1, <1>5 DEF Found
  <2>2. stop \in 0 .. max /\ start \in 0 .. max /\ start # NoPointer /\ stop # NoPointer
    BY <1>2 DEF NoPointer
  <2> QED
    BY <2>1, <2>2 DEF r
<1> QED
  BY <1>3, <1>4, <1>5

-----------------------------------------------------------------------------
\* The words of a line, and those that start among its first p characters.
WordsOf(s) == {w \in (1 .. Len(s)) \X (1 .. Len(s)) : IsWord(s, w[1], w[2])}
StartBy(s, p) == {w \in WordsOf(s) : w[1] <= p}

\* A line as readline leaves it: it fits the buffer with its zero byte.
FitsBuffer(s) == s \in Seq(Chars) /\ Len(s) < max /\ \A k \in 1 .. Len(s) : s[k] # NUL

\* The arguments are the words that start among the first p characters, each as far as an
\* argument has room for it.
Arguments(s, p, given) ==
    /\ given \in Seq(Seq(Chars)) /\ Len(given) = Cardinality(StartBy(s, p))
    /\ \A w \in StartBy(s, p) :
         given[Cardinality(StartBy(s, w[1]))] = SubSeq(s, w[1], LastKept(w[1], w[2]))

\* From p on the memory holds the line, and no word goes across p.
Rest(s, mem, p) ==
    /\ p \in 0 .. Len(s) /\ mem[Len(s)] = NUL
    /\ \A h \in p .. Len(s) - 1 : mem[h] = s[h + 1]
    /\ p = 0 \/ p = Len(s) \/ s[p] = SPACE

\* The word at t is cut off at its end, and p is behind it.
Cut(s, mem, t, p, b) ==
    /\ t \in 0 .. Len(s) - 1 /\ b \in 1 .. Len(s)
    /\ IsWord(s, t + 1, b) /\ p = (IF b < Len(s) THEN b + 1 ELSE b)
    /\ mem[b] = NUL /\ \A h \in t .. b - 1 : mem[h] = s[h + 1]

\* The parse of the line s with the token at t: the words before it are the arguments.
Parsed(s, mem, p, t, given) ==
    IF t = NoPointer THEN Arguments(s, Len(s), given)
    ELSE Arguments(s, t, given) /\ Rest(s, mem, p) /\ \E b \in 1 .. Len(s) : Cut(s, mem, t, p, b)

\* There are finitely many words.
LEMMA WordsFinite ==
    ASSUME NEW s, FitsBuffer(s), NEW p
    PROVE  IsFiniteSet(StartBy(s, p)) /\ Cardinality(StartBy(s, p)) \in Nat
<1>1. Len(s) \in Nat
  BY DEF FitsBuffer
<1>2. IsFiniteSet(1 .. Len(s))
  BY <1>1, FS_Interval
<1>3. IsFiniteSet((1 .. Len(s)) \X (1 .. Len(s)))
  BY <1>2, FS_Product
<1>4. StartBy(s, p) \in SUBSET ((1 .. Len(s)) \X (1 .. Len(s)))
  BY DEF StartBy, WordsOf
<1>5. IsFiniteSet(StartBy(s, p))
  BY <1>3, <1>4, FS_Subset
<1> QED
  BY <1>5, FS_CardinalityType

\* Only spaces between p and q: no word starts there.
LEMMA NoWordInSpaces ==
    ASSUME NEW s, FitsBuffer(s), NEW p \in 0 .. Len(s), NEW q \in p .. Len(s),
           \A h \in p + 1 .. q : s[h] = SPACE
    PROVE  StartBy(s, q) = StartBy(s, p)
<1>1. Len(s) \in Nat
  BY DEF FitsBuffer
<1>2. ASSUME NEW w \in WordsOf(s), w[1] <= q PROVE w[1] <= p
  <2>1. w[1] \in 1 .. Len(s) /\ w[2] \in 1 .. Len(s) /\ IsWord(s, w[1], w[2])
    BY DEF WordsOf
  <2>2. s[w[1]] # SPACE
    BY <1>1, <2>1 DEF IsWord
  <2> QED
    BY <1>1, <1>2, <2>1, <2>2
<1>3. \A w \in WordsOf(s) : w[1] <= p => w[1] <= q
  <2>1. \A w \in WordsOf(s) : w[1] \in 1 .. Len(s)
    BY DEF WordsOf
  <2> QED
    BY <1>1, <2>1
<1> QED
  BY <1>2, <1>3 DEF StartBy

\* No word starts inside another one or at the space behind it.
LEMMA WordIsOne ==
    ASSUME NEW s, FitsBuffer(s), NEW t \in 0 .. Len(s) - 1, NEW b \in 1 .. Len(s), IsWord(s, t + 1, b),
           NEW p, p = (IF b < Len(s) THEN b + 1 ELSE b)
    PROVE  /\ StartBy(s, p) = StartBy(s, t) \cup {<<t + 1, b>>}
           /\ StartBy(s, t + 1) = StartBy(s, p)
           /\ <<t + 1, b>> \notin StartBy(s, t)
<1>1. Len(s) \in Nat /\ t \in Nat /\ t + 1 <= b /\ b \in Nat /\ p \in b .. Len(s) /\ p <= b + 1
  BY DEF FitsBuffer, IsWord
<1>2. /\ \A k \in t + 1 .. b : s[k] # SPACE
      /\ b = Len(s) \/ s[b + 1] = SPACE
  BY DEF IsWord
<1>3. <<t + 1, b>> \in WordsOf(s) /\ <<t + 1, b>>[1] = t + 1
  <2>1. <<t + 1, b>> \in (1 .. Len(s)) \X (1 .. Len(s))
    BY <1>1
  <2> QED
    BY <2>1 DEF WordsOf
<1>4. ASSUME NEW w \in WordsOf(s), w[1] <= p, ~(w[1] <= t) PROVE w = <<t + 1, b>>
  <2>1. /\ w[1] \in 1 .. Len(s) /\ w[2] \in 1 .. Len(s) /\ w = <<w[1], w[2]>>
        /\ IsWord(s, w[1], w[2])
    BY DEF WordsOf
  <2>2. /\ w[1] <= w[2] /\ \A k \in w[1] .. w[2] : s[k] # SPACE
        /\ w[1] = 1 \/ s[w[1] - 1] = SPACE
        /\ w[2] = Len(s) \/ s[w[2] + 1] = SPACE
    BY <2>1 DEF IsWord
  <2>3. s[w[1]] # SPACE
    BY <1>1, <2>1, <2>2
  <2>4. w[1] \in t + 1 .. b + 1
    BY <1>1, <1>4, <2>1
  <2>5. w[1] # b + 1
    BY <1>1, <1>2, <1>4, <2>1, <2>3
  <2>6. ~(w[1] > t + 1)
    <3> SUFFICES ASSUME w[1] > t + 1 PROVE FALSE
      OBVIOUS
    <3>1. w[1] - 1 \in t + 1 .. b /\ w[1] # 1
      BY <1>1, <2>1, <2>4
    <3> QED
      BY <1>2, <2>2, <3>1
  <2>7. w[1] = t + 1
    BY <1>1, <2>1, <2>4, <2>6
  <2>8. ~(w[2] < b)
    <3> SUFFICES ASSUME w[2] < b PROVE FALSE
      OBVIOUS
    <3>1. w[2] + 1 \in t + 1 .. b /\ w[2] # Len(s)
      BY <1>1, <2>1, <2>2, <2>7
    <3> QED
      BY <1>2, <2>2, <3>1
  <2>9. ~(b < w[2])
    <3> SUFFICES ASSUME b < w[2] PROVE FALSE
      OBVIOUS
    <3>1. b + 1 \in w[1] .. w[2] /\ b # Len(s)
      BY <1>1, <2>1, <2>2, <2>7
    <3> QED
      BY <1>2, <2>2, <3>1
  <2>10. w[2] = b
    BY <1>1, <2>1, <2>8, <2>9
  <2> QED
    BY <2>1, <2>7, <2>10
<1>5. \A w \in WordsOf(s) : w[1] \in Nat
  BY DEF WordsOf
<1>6. <<t + 1, b>> \notin StartBy(s, t)
  BY <1>1, <1>3 DEF StartBy
<1>7. \A w \in WordsOf(s) : w[1] <= p <=> (w[1] <= t \/ w = <<t + 1, b>>)
  BY <1>1, <1>3, <1>4, <1>5
<1>8. \A w \in WordsOf(s) : w[1] <= t + 1 <=> (w[1] <= t \/ w = <<t + 1, b>>)
  BY <1>1, <1>3, <1>5, <1>7
<1>9. StartBy(s, p) = StartBy(s, t) \cup {<<t + 1, b>>}
  BY <1>3, <1>7, Zenon DEF StartBy
<1>10. StartBy(s, t + 1) = StartBy(s, p)
  BY <1>7, <1>8, Zenon DEF StartBy
<1> QED
  BY <1>6, <1>9, <1>10

\* The string at the token is the word.
LEMMA TokenIsWord ==
    ASSUME NEW s, FitsBuffer(s), NEW mem, NEW t, NEW p, NEW b, Cut(s, mem, t, p, b)
    PROVE  String(mem, t) = SubSeq(s, t + 1, b) /\ SubSeq(s, t + 1, b) \in Seq(Chars)
<1>1. /\ Len(s) \in Nat /\ t \in Nat /\ t + 1 <= b /\ b \in Nat /\ b <= Len(s) /\ Len(s) < max
      /\ max \in Nat /\ s \in Seq(Chars)
  BY MaxAssumption DEF FitsBuffer, Cut, IsWord
<1>2. mem[b] = NUL /\ \A h \in t .. b - 1 : mem[h] = s[h + 1]
  BY DEF Cut
<1>3. \A h \in t .. b - 1 : mem[h] # NUL
  <2> SUFFICES ASSUME NEW h \in t .. b - 1 PROVE mem[h] # NUL
    OBVIOUS
  <2>1. h + 1 \in 1 .. Len(s)
    BY <1>1
  <2> QED
    BY <1>2, <2>1 DEF FitsBuffer
<1>4. Ends(mem, t, b) /\ t \in 0 .. max
  BY <1>1, <1>2, <1>3 DEF Ends
<1>5. String(mem, t) = [h \in 1 .. b - t |-> mem[t + h - 1]]
  BY <1>4, StringIs
<1>6. SubSeq(s, t + 1, b) = [h \in 1 .. b - t |-> s[t + h]]
  BY <1>1
<1>7. \A h \in 1 .. b - t : mem[t + h - 1] = s[t + h]
  <2> SUFFICES ASSUME NEW h \in 1 .. b - t PROVE mem[t + h - 1] = s[t + h]
    OBVIOUS
  <2>1. t + h - 1 \in t .. b - 1 /\ (t + h - 1) + 1 = t + h
    BY <1>1
  <2> QED
    BY <1>2, <2>1
<1>8. String(mem, t) = SubSeq(s, t + 1, b)
  BY <1>5, <1>6, <1>7
<1>9. SubSeq(s, t + 1, b) \in Seq(Chars)
  BY <1>1
<1> QED
  BY <1>8, <1>9

\* What strncpy leaves of a word is the part that an argument has room for.
LEMMA ArgumentIsKept ==
    ASSUME NEW s, FitsBuffer(s), NEW a \in 1 .. Len(s), NEW b \in a .. Len(s)
    PROVE  /\ Argument(SubSeq(s, a, b)) = SubSeq(s, a, LastKept(a, b))
           /\ SubSeq(s, a, LastKept(a, b)) \in Seq(Chars)
<1> DEFINE word == SubSeq(s, a, b)
           n == ArgumentSize - 1
<1>1. s \in Seq(Chars) /\ Len(s) \in Nat /\ n \in Nat
  BY MaxAssumption DEF FitsBuffer
<1>2. /\ word \in Seq(Chars) /\ Len(word) = b - a + 1
      /\ \A k \in 1 .. Len(word) : word[k] = s[a + k - 1]
  BY <1>1
<1> HIDE DEF word
<1>3. CASE b - a < n
  <2>1. LastKept(a, b) = b
    BY <1>3 DEF LastKept
  <2>2. Len(word) < ArgumentSize
    BY <1>1, <1>2, <1>3, MaxAssumption
  <2> QED
    BY <1>2, <2>1, <2>2 DEF Argument, word
<1>4. CASE ~(b - a < n)
  <2>1. LastKept(a, b) = a + n - 1
    BY <1>4, MaxAssumption DEF LastKept
  <2>2. ~(Len(word) < ArgumentSize) /\ n <= Len(word)
    BY <1>1, <1>2, <1>4, MaxAssumption
  <2>3. Argument(word) = SubSeq(word, 1, n)
    BY <2>2 DEF Argument
  <2>4. SubSeq(word, 1, n) = [k \in 1 .. n |-> word[k]]
    BY <1>1, <1>2
  <2>5. SubSeq(s, a, a + n - 1) = [k \in 1 .. n |-> s[a + k - 1]]
    <3>1. (a + n - 1) - a + 1 = n
      BY <1>1
    <3> QED
      BY <1>1, <3>1
  <2>6. \A k \in 1 .. n : word[k] = s[a + k - 1]
    BY <1>1, <1>2, <2>2
  <2>7. SubSeq(word, 1, n) = SubSeq(s, a, a + n - 1)
    BY <2>4, <2>5, <2>6
  <2>8. SubSeq(word, 1, n) \in Seq(Chars)
    BY <1>1, <1>2, <2>2
  <2> QED
    BY <2>1, <2>3, <2>7, <2>8 DEF word
<1> QED
  BY <1>3, <1>4

\* y is q with x behind it.
Extended(S, q, x, y) ==
    /\ y \in Seq(S) /\ Len(y) = Len(q) + 1 /\ y[Len(q) + 1] = x
    /\ \A k \in 1 .. Len(q) : y[k] = q[k]

\* That is what Append gives.
LEMMA AppendIs ==
    ASSUME NEW S, NEW q \in Seq(S), NEW x \in S
    PROVE  Extended(S, q, x, Append(q, x))
  BY DEF Extended

\* The token behind the arguments becomes the next one.
LEMMA TakesToken ==
    ASSUME NEW s, FitsBuffer(s), NEW mem, NEW t, NEW p, NEW b, Cut(s, mem, t, p, b),
           NEW given, Arguments(s, t, given)
    PROVE  Arguments(s, p, Append(given, Argument(String(mem, t))))
<1> DEFINE word == SubSeq(s, t + 1, LastKept(t + 1, b))
           new == Append(given, word)
           w0 == <<t + 1, b>>
<1>1. Argument(String(mem, t)) = word /\ word \in Seq(Chars)
  <2>1. t + 1 \in 1 .. Len(s) /\ b \in t + 1 .. Len(s)
    BY DEF Cut, IsWord, FitsBuffer
  <2>2. String(mem, t) = SubSeq(s, t + 1, b)
    BY TokenIsWord
  <2> QED
    BY <2>1, <2>2, ArgumentIsKept
<1>2. /\ StartBy(s, p) = StartBy(s, t) \cup {w0}
      /\ StartBy(s, t + 1) = StartBy(s, p) /\ w0 \notin StartBy(s, t)
  BY WordIsOne DEF Cut
<1>3. w0[1] = t + 1 /\ w0[2] = b
  OBVIOUS
<1> HIDE DEF w0
<1>4. /\ Cardinality(StartBy(s, p)) = Cardinality(StartBy(s, t)) + 1
      /\ Cardinality(StartBy(s, t)) \in Nat
  <2>1. IsFiniteSet(StartBy(s, t)) /\ Cardinality(StartBy(s, t)) \in Nat
    BY WordsFinite
  <2> QED
    BY <1>2, <2>1, FS_AddElement
<1>5. given \in Seq(Seq(Chars)) /\ Len(given) = Cardinality(StartBy(s, t))
  BY DEF Arguments
<1> HIDE DEF word
<1>6. /\ new \in Seq(Seq(Chars)) /\ Len(new) = Len(given) + 1 /\ new[Len(given) + 1] = word
      /\ \A k \in 1 .. Len(given) : new[k] = given[k]
  <2>1. Extended(Seq(Chars), given, word, new)
    BY <1>1, <1>5, AppendIs
  <2> HIDE DEF new
  <2> QED
    BY <2>1 DEF Extended
<1> HIDE DEF new
<1>7. ASSUME NEW w \in StartBy(s, p)
      PROVE  new[Cardinality(StartBy(s, w[1]))] = SubSeq(s, w[1], LastKept(w[1], w[2]))
  <2>1. CASE w = w0
    <3>1. Cardinality(StartBy(s, w[1])) = Len(given) + 1
      BY <1>2, <1>3, <1>4, <1>5, <2>1
    <3> QED
      BY <1>3, <1>6, <2>1, <3>1 DEF word
  <2>2. CASE w # w0
    <3>1. w \in StartBy(s, t)
      BY <1>2, <2>2
    <3>2. given[Cardinality(StartBy(s, w[1]))] = SubSeq(s, w[1], LastKept(w[1], w[2]))
      BY <3>1 DEF Arguments
    <3>3. w \in StartBy(s, w[1]) /\ StartBy(s, w[1]) \in SUBSET StartBy(s, t)
      <4>1. \A v \in WordsOf(s) : v[1] \in Nat
        BY DEF WordsOf
      <4>2. w \in WordsOf(s) /\ w[1] <= t /\ t \in Nat
        BY <3>1 DEF StartBy, Cut
      <4> QED
        BY <4>1, <4>2 DEF StartBy
    <3>4. /\ IsFiniteSet(StartBy(s, w[1])) /\ Cardinality(StartBy(s, w[1])) \in Nat
          /\ IsFiniteSet(StartBy(s, t))
      BY WordsFinite
    <3>5. Cardinality(StartBy(s, w[1])) <= Cardinality(StartBy(s, t))
      BY <3>3, <3>4, FS_Subset
    <3>6. Cardinality(StartBy(s, w[1])) # 0
      BY <3>3, <3>4, FS_EmptySet
    <3>7. Cardinality(StartBy(s, w[1])) \in 1 .. Len(given)
      BY <1>4, <1>5, <3>4, <3>5, <3>6
    <3> QED
      BY <1>6, <3>2, <3>7
  <2> QED
    BY <2>1, <2>2
<1>8. Arguments(s, p, new)
  BY <1>4, <1>5, <1>6, <1>7 DEF Arguments
<1> QED
  BY <1>1, <1>8 DEF new

\* strtok finds the next word of the line, or the end of it.
LEMMA StrtokFinds ==
    ASSUME NEW s, FitsBuffer(s), NEW mem \in [Buffer -> Chars], NEW p, Rest(s, mem, p),
           NEW given, Arguments(s, p, given)
    PROVE  Parsed(s, strtok(mem, p).mem, strtok(mem, p).sp, strtok(mem, p).token, given)
<1> DEFINE r == strtok(mem, p)
           n == Len(s)
<1>1. /\ n \in Nat /\ n < max /\ max \in Nat /\ p \in 0 .. n /\ s \in Seq(Chars)
      /\ mem[n] = NUL /\ \A h \in p .. n - 1 : mem[h] = s[h + 1]
      /\ p = 0 \/ p = n \/ s[p] = SPACE
  BY MaxAssumption DEF FitsBuffer, Rest
<1>2. \A h \in p .. n - 1 : mem[h] # NUL
  <2> SUFFICES ASSUME NEW h \in p .. n - 1 PROVE mem[h] # NUL
    OBVIOUS
  <2>1. h + 1 \in 1 .. n
    BY <1>1
  <2> QED
    BY <1>1, <2>1 DEF FitsBuffer
<1>3. p \in 0 .. max
  BY <1>1
<1>4. PICK start \in p .. max, end \in 0 .. max, stop \in 0 .. max :
              /\ start = max \/ mem[start] # SPACE
              /\ \A h \in p .. start - 1 : mem[h] = SPACE
              /\ Ends(mem, start, end) /\ Stops(mem, start, end, stop)
              /\ Found(mem, r, start, end, stop)
  BY <1>3, StrtokIs, Zenon
<1> HIDE DEF r
<1>5. start \in p .. n
  <2> SUFFICES ASSUME start > n PROVE FALSE
    BY <1>1
  <2>1. n \in p .. start - 1
    BY <1>1
  <2> QED
    BY <1>1, <1>4, <2>1 DEF NUL, SPACE
<1>6. \A h \in p + 1 .. start : s[h] = SPACE
  <2> SUFFICES ASSUME NEW h \in p + 1 .. start PROVE s[h] = SPACE
    OBVIOUS
  <2>1. h - 1 \in p .. start - 1 /\ h - 1 \in p .. n - 1 /\ (h - 1) + 1 = h
    BY <1>1, <1>5
  <2> QED
    BY <1>1, <1>4, <2>1
<1>7. StartBy(s, start) = StartBy(s, p)
  BY <1>1, <1>5, <1>6, NoWordInSpaces
<1>8. Arguments(s, start, given)
  BY <1>7 DEF Arguments
<1>9. CASE start = n
  <2>1. r = [mem |-> mem, sp |-> NoPointer, token |-> NoPointer]
    BY <1>1, <1>4, <1>9 DEF Found
  <2> QED
    BY <1>8, <1>9, <2>1 DEF Parsed, r
<1>10. CASE start # n
  <2>1. start \in 0 .. n - 1 /\ start + 1 \in 1 .. n /\ mem[start] = s[start + 1] /\ start \in 0 .. max
    BY <1>1, <1>5, <1>10
  <2>2. mem[start] # NUL /\ start # max /\ mem[start] # SPACE
    BY <1>1, <1>2, <1>4, <1>5, <2>1
  <2>3. end = n
    <3>1. Ends(mem, start, n)
      BY <1>1, <1>2, <1>5, <2>1 DEF Ends
    <3> QED
      BY <1>4, <2>1, <3>1, EndsOnce
  <2>4. /\ stop \in start .. n /\ (stop = n \/ mem[stop] = SPACE)
        /\ \A h \in start .. stop - 1 : mem[h] # SPACE
    BY <1>4, <2>3 DEF Stops
  <2>5. stop # start
    BY <1>1, <2>1, <2>2, <2>4
  <2>6. stop \in start + 1 .. n /\ stop \in 1 .. n /\ stop \in Buffer
    BY <1>1, <2>1, <2>4, <2>5 DEF Buffer
  <2>7. IsWord(s, start + 1, stop)
    <3>1. ASSUME NEW k \in start + 1 .. stop PROVE s[k] # SPACE
      <4>1. k - 1 \in start .. stop - 1 /\ k - 1 \in p .. n - 1 /\ (k - 1) + 1 = k
        BY <1>1, <1>5, <2>1, <2>6
      <4> QED
        BY <1>1, <2>4, <4>1
    <3>2. start + 1 = 1 \/ s[(start + 1) - 1] = SPACE
      <4>1. CASE start = p
        BY <1>1, <1>10, <2>1, <4>1
      <4>2. CASE start # p
        <5>1. start \in p + 1 .. start /\ (start + 1) - 1 = start
          BY <1>1, <1>5, <4>2
        <5> QED
          BY <1>6, <5>1
      <4> QED
        BY <4>1, <4>2
    <3>3. stop = n \/ s[stop + 1] = SPACE
      <4> SUFFICES ASSUME stop # n PROVE s[stop + 1] = SPACE
        OBVIOUS
      <4>1. stop \in p .. n - 1
        BY <1>1, <1>5, <2>4
      <4> QED
        BY <1>1, <2>4, <4>1
    <3> QED
      BY <1>1, <2>1, <2>6, <3>1, <3>2, <3>3 DEF IsWord
  <2> DEFINE q == IF stop < n THEN stop + 1 ELSE stop
             m == IF stop < n THEN [mem EXCEPT ![stop] = NUL] ELSE mem
  <2>8. r.mem = m /\ r.sp = q /\ r.token = start
    BY <1>4, <2>2, <2>3 DEF Found
  <2>9. m[stop] = NUL /\ \A h \in Buffer : h # stop => m[h] = mem[h]
    BY <1>1, <2>4, <2>6
  <2> HIDE DEF m
  <2>10. \A h \in start .. stop - 1 : m[h] = s[h + 1]
    <3> SUFFICES ASSUME NEW h \in start .. stop - 1 PROVE m[h] = s[h + 1]
      OBVIOUS
    <3>1. h \in Buffer /\ h # stop /\ h \in p .. n - 1
      BY <1>1, <1>5, <2>1, <2>6 DEF Buffer
    <3> QED
      BY <1>1, <2>9, <3>1
  <2>11. Cut(s, m, start, q, stop)
    BY <2>1, <2>6, <2>7, <2>9, <2>10 DEF Cut
  <2>12. Rest(s, m, q)
    <3>1. q \in 0 .. n /\ (q = n \/ s[q] = SPACE)
      <4>1. CASE stop < n
        BY <1>1, <2>6, <2>7, <4>1 DEF IsWord
      <4>2. CASE ~(stop < n)
        BY <1>1, <2>6, <4>2
      <4> QED
        BY <4>1, <4>2
    <3>2. m[n] = NUL
      BY <1>1, <2>9 DEF Buffer
    <3>3. ASSUME NEW h \in q .. n - 1 PROVE m[h] = s[h + 1]
      <4>1. h \in Buffer /\ h # stop /\ h \in p .. n - 1
        <5>1. stop < n /\ q = stop + 1
          BY <1>1, <2>6, <3>1
        <5> QED
          BY <1>1, <1>5, <2>6, <5>1 DEF Buffer
      <4> QED
        BY <1>1, <2>9, <4>1
    <3> QED
      BY <3>1, <3>2, <3>3 DEF Rest
  <2>13. start # NoPointer
    BY <2>1 DEF NoPointer
  <2> HIDE DEF q
  <2>14. Parsed(s, m, q, start, given)
    BY <1>8, <2>6, <2>11, <2>12, <2>13 DEF Parsed
  <2> QED
    BY <2>8, <2>14 DEF r
<1> QED
  BY <1>9, <1>10

-----------------------------------------------------------------------------
\* The inductive invariant for the parser.  strtok has a pointer left exactly when a
\* malloc has failed, or it was stray from the start: a line after one that was parsed to
\* its end starts afresh.
ParseInv ==
    /\ out \in [Buffer -> Chars] /\ i \in Buffer
    /\ scommand \in [Buffer -> Chars]
    /\ sp \in {NoPointer, Stray} \cup 0 .. max
    /\ phase \in {"prompt", "read", "run"} /\ ~failed => sp \in {NoPointer, Stray}
    /\ phase = "parse" => ~failed /\ (~before => sp \in {NoPointer, Stray})
    /\ phase = "malloc" => ~failed /\ sp # Stray /\ (sp = NoPointer <=> token = NoPointer)
    /\ phase \in {"parse", "malloc", "run"} => \E k \in Buffer : out[k] = NUL
    /\ phase = "run" /\ ~failed => token = NoPointer
    /\ phase \in {"malloc", "run"} /\ ~failed /\ ~before =>
         Parsed(String(out, 0), scommand, sp, token, args)

\* What readline leaves in its buffer is a line.
LEMMA LineFits ==
    ASSUME NEW mem \in [Buffer -> Chars], \E k \in Buffer : mem[k] = NUL
    PROVE  FitsBuffer(String(mem, 0))
<1>1. max \in Nat /\ 0 \in 0 .. max
  BY MaxAssumption
<1>2. PICK e \in 0 .. max : Ends(mem, 0, e)
  BY <1>1, StringEnds
<1>3. e < max
  <2>1. PICK k \in Buffer : mem[k] = NUL
    OBVIOUS
  <2>2. ~(k < e)
    BY <1>1, <1>2, <2>1 DEF Ends, Buffer
  <2> QED
    BY <1>1, <2>2 DEF Buffer
<1> DEFINE s == String(mem, 0)
<1>4. /\ s = [h \in 1 .. e - 0 |-> mem[0 + h - 1]] /\ Len(s) = e - 0
      /\ \A h \in 1 .. e - 0 : s[h] = mem[0 + h - 1]
  BY <1>1, <1>2, StringIs
<1>5. \A h \in 1 .. e : 0 + h - 1 = h - 1 /\ h - 1 \in Buffer /\ h - 1 \in 0 .. e - 1
  BY <1>1, <1>3 DEF Buffer
<1>6. e - 0 = e
  OBVIOUS
<1> HIDE DEF s
<1>7. s = [h \in 1 .. e |-> mem[h - 1]] /\ Len(s) = e /\ \A h \in 1 .. e : s[h] = mem[h - 1]
  BY <1>4, <1>5, <1>6
<1>8. s \in Seq(Chars)
  <2>1. \A h \in 1 .. e : mem[h - 1] \in Chars
    BY <1>5
  <2> QED
    BY <1>7, <2>1
<1>9. \A h \in 1 .. e : s[h] # NUL
  BY <1>2, <1>5, <1>7 DEF Ends
<1> QED
  BY <1>3, <1>7, <1>8, <1>9 DEF FitsBuffer, s

\* The copy that peachos_parse_command works on.
LEMMA CopyIs ==
    ASSUME NEW s, FitsBuffer(s), NEW junk \in [Buffer -> Chars]
    PROVE  Copied(s, junk) \in [Buffer -> Chars] /\ Rest(s, Copied(s, junk), 0)
<1>1. Len(s) \in Nat /\ Len(s) < max /\ max \in Nat /\ s \in Seq(Chars)
  BY MaxAssumption DEF FitsBuffer
<1> DEFINE m == Copied(s, junk)
<1>2. m = [k \in Buffer |-> IF k < Len(s) THEN s[k + 1]
                            ELSE IF k = Len(s) THEN NUL ELSE junk[k]]
  BY DEF Copied
<1> HIDE DEF m
<1>3. \A k \in Buffer : k < Len(s) => s[k + 1] \in Chars
  BY <1>1 DEF Buffer
<1>4. m \in [Buffer -> Chars]
  <2>1. NUL \in Chars
    BY DEF Chars
  <2> QED
    BY <1>2, <1>3, <2>1
<1>5. m[Len(s)] = NUL /\ \A h \in 0 .. Len(s) - 1 : m[h] = s[h + 1]
  BY <1>1, <1>2 DEF Buffer
<1> QED
  BY <1>1, <1>4, <1>5 DEF Rest, m

\* Before the first word there are no arguments.
LEMMA NoArguments ==
    ASSUME NEW s, FitsBuffer(s)
    PROVE  Arguments(s, 0, <<>>)
<1>1. StartBy(s, 0) = {}
  BY DEF StartBy, WordsOf
<1>2. Cardinality(StartBy(s, 0)) = 0
  BY <1>1, FS_EmptySet
<1> QED
  BY <1>1, <1>2 DEF Arguments

\* Every step preserves the invariant.
LEMMA ParseStep == BufferInv /\ BufferInv' /\ ParseInv /\ [LineNext]_allVars => ParseInv'
<1> SUFFICES ASSUME BufferInv, BufferInv', ParseInv, [LineNext]_allVars PROVE ParseInv'
  OBVIOUS
<1>0. /\ out' \in [Buffer -> Chars] /\ i' \in Buffer /\ max \in Nat \ {0} /\ 0 \in 0 .. max
      /\ out \in [Buffer -> Chars] /\ i \in Buffer /\ scommand \in [Buffer -> Chars]
  BY MaxAssumption DEF BufferInv, Chars, Buffer, ParseInv
<1>1. CASE print_prompt
  BY <1>0, <1>1 DEF print_prompt, ParseInv
<1>2. ASSUME NEW key \in Keys \cup {BACKSPACE}, peachos_terminal_readline(key) PROVE ParseInv'
  BY <1>0, <1>2 DEF peachos_terminal_readline, ParseInv
<1>3. CASE LineRead
  <2>1. /\ phase = "read" /\ phase' = "parse" /\ out' = [out EXCEPT ![i] = NUL]
        /\ before' = failed /\ failed' = FALSE /\ sp' = sp /\ scommand' = scommand
    BY <1>3 DEF LineRead
  <2>2. out'[i] = NUL
    BY <1>0, <2>1
  <2> QED
    BY <1>0, <2>1, <2>2 DEF ParseInv
<1>4. ASSUME NEW junk \in [Buffer -> {NUL} \cup Keys], ParseStarts(junk) PROVE ParseInv'
  <2> DEFINE s == String(out, 0)
             m == Copied(s, junk)
             p == IF sp = NoPointer THEN 0 ELSE sp
  <2>1. /\ phase = "parse" /\ sp # Stray /\ phase' = "malloc" /\ args' = <<>> /\ out' = out
        /\ failed' = failed /\ before' = before
        /\ scommand' = strtok(m, p).mem /\ sp' = strtok(m, p).sp /\ token' = strtok(m, p).token
    BY <1>4, Zenon DEF ParseStarts
  <2>2. FitsBuffer(s)
    BY <1>0, <2>1, LineFits DEF ParseInv
  <2> HIDE DEF s
  <2>3. junk \in [Buffer -> Chars]
    BY PromptAssumption DEF Chars
  <2>4. m \in [Buffer -> Chars] /\ Rest(s, m, 0)
    BY <2>2, <2>3, CopyIs
  <2>5. p \in 0 .. max
    BY <1>0, <2>1 DEF ParseInv
  <2> HIDE DEF m
  <2>6. /\ strtok(m, p).mem \in [Buffer -> Chars]
        /\ strtok(m, p).sp \in {NoPointer} \cup 0 .. max
        /\ strtok(m, p).sp = NoPointer <=> strtok(m, p).token = NoPointer
    BY <2>4, <2>5, StrtokType
  <2>7. ASSUME ~before PROVE Parsed(s, scommand', sp', token', <<>>)
    <3>1. p = 0
      BY <2>1, <2>7 DEF ParseInv
    <3>2. Arguments(s, 0, <<>>)
      BY <2>2, NoArguments
    <3>3. Parsed(s, strtok(m, 0).mem, strtok(m, 0).sp, strtok(m, 0).token, <<>>)
      BY <2>2, <2>4, <3>2, StrtokFinds
    <3> QED
      BY <2>1, <3>1, <3>3, Zenon
  <2> HIDE DEF p
  <2>8. ~before' => Parsed(String(out', 0), scommand', sp', token', args')
    BY <2>1, <2>7 DEF s
  <2>9. ~failed' /\ \E k \in Buffer : out'[k] = NUL
    BY <2>1 DEF ParseInv
  <2>10. sp' # Stray
    BY <1>0, <2>1, <2>6 DEF NoPointer, Stray
  <2> QED
    BY <1>0, <2>1, <2>6, <2>8, <2>9, <2>10 DEF ParseInv
<1>5. CASE NextArgument
  <2> DEFINE s == String(out, 0)
             t == strtok(scommand, sp)
             new == Append(args, Argument(String(scommand, token)))
  <2>1. /\ phase = "malloc" /\ phase' = "malloc" /\ token # NoPointer /\ out' = out
        /\ failed' = failed /\ before' = before /\ args' = new
        /\ scommand' = t.mem /\ sp' = t.sp /\ token' = t.token
    BY <1>5, Zenon DEF NextArgument
  <2>2. /\ ~failed /\ sp \in 0 .. max /\ \E k \in Buffer : out[k] = NUL
    BY <2>1 DEF ParseInv
  <2>3. FitsBuffer(s)
    BY <1>0, <2>2, LineFits
  <2>4. /\ t.mem \in [Buffer -> Chars] /\ t.sp \in {NoPointer} \cup 0 .. max
        /\ t.sp = NoPointer <=> t.token = NoPointer
    BY <1>0, <2>2, StrtokType
  <2>5. ASSUME ~before PROVE Parsed(s, t.mem, t.sp, t.token, new)
    <3>1. Parsed(s, scommand, sp, token, args)
      BY <2>1, <2>2, <2>5 DEF ParseInv
    <3> HIDE DEF s
    <3>2. /\ Arguments(s, token, args) /\ Rest(s, scommand, sp)
          /\ \E b \in 1 .. Len(s) : Cut(s, scommand, token, sp, b)
      BY <2>1, <3>1 DEF Parsed
    <3>3. Arguments(s, sp, new)
      BY <2>3, <3>2, TakesToken
    <3> HIDE DEF new
    <3> QED
      BY <1>0, <2>3, <3>2, <3>3, StrtokFinds
  <2> HIDE DEF t, new
  <2>6. ~before' => Parsed(String(out', 0), scommand', sp', token', args')
    BY <2>1, <2>5 DEF s
  <2>7. ~failed' /\ \E k \in Buffer : out'[k] = NUL
    BY <2>1, <2>2
  <2>8. sp' # Stray
    BY <1>0, <2>1, <2>4 DEF NoPointer, Stray
  <2> HIDE DEF s
  <2> QED
    BY <1>0, <2>1, <2>4, <2>6, <2>7, <2>8 DEF ParseInv
<1>6. CASE MallocFails
  <2>1. /\ phase = "malloc" /\ phase' = "run" /\ failed' = TRUE /\ out' = out
        /\ scommand' = scommand /\ sp' = sp
    BY <1>6 DEF MallocFails
  <2> QED
    BY <1>0, <2>1 DEF ParseInv
<1>7. CASE ParseEnds
  <2>1. /\ phase = "malloc" /\ phase' = "run" /\ failed' = failed /\ out' = out
        /\ scommand' = scommand /\ sp' = sp /\ token = NoPointer /\ token' = token
        /\ before' = before /\ args' = args
    BY <1>7 DEF ParseEnds
  <2>2. ~before' => Parsed(String(out', 0), scommand', sp', token', args')
    BY <2>1 DEF ParseInv
  <2>3. /\ sp' = NoPointer /\ \E k \in Buffer : out'[k] = NUL
    BY <2>1 DEF ParseInv
  <2> QED
    BY <1>0, <2>1, <2>2, <2>3 DEF ParseInv
<1>8. CASE maeros_system_run
  <2>1. /\ phase = "run" /\ phase' = "prompt" /\ failed' = failed /\ sp' = sp
        /\ scommand' = [k \in Buffer |-> NUL]
    BY <1>8 DEF maeros_system_run
  <2>2. scommand' \in [Buffer -> Chars]
    BY <2>1 DEF Chars
  <2> QED
    BY <1>0, <2>1, <2>2 DEF ParseInv
<1>9. CASE StrayPointer
  <2>1. /\ phase' = "wild" /\ sp' = sp /\ scommand' = scommand
    BY <1>9 DEF StrayPointer
  <2> QED
    BY <1>0, <2>1 DEF ParseInv
<1>10. CASE UNCHANGED allVars
  BY <1>0, <1>10 DEF ParseInv, allVars, vars, lineVars
<1> QED
  BY <1>1, <1>2, <1>3, <1>4, <1>5, <1>6, <1>7, <1>8, <1>9, <1>10 DEF LineNext

\* For every line that fits the buffer, every alphabet, every size of an argument and every
\* rubbish on the stack: the arguments of the command that peachos_parse_command returns
\* are the words of the line, all of them and in order, each up to the characters that an
\* argument has room for, unless a malloc has failed for this line or for the one before.
\* Of a program whose strtok finds a stray pointer in its bss nothing is said.
THEOREM ArgumentsAreTheWords == LineSpec => []ArgumentsAreWords
<1>1. LineInit => BufferInv /\ ParseInv
  <2> SUFFICES ASSUME LineInit PROVE BufferInv /\ ParseInv
    OBVIOUS
  <2>1. BufferInv
    BY StartsShown
  <2>2. [k \in Buffer |-> NUL] \in [Buffer -> Chars] /\ 0 \in Buffer
    BY MaxAssumption DEF Chars, Buffer
  <2> QED
    BY <2>1, <2>2 DEF LineInit, ParseInv
<1>2. BufferInv /\ ParseInv /\ [LineNext]_allVars => BufferInv' /\ ParseInv'
  BY BufferStep, ParseStep
<1>3. ParseInv => ArgumentsAreWords
  <2> SUFFICES ASSUME ParseInv, phase = "run", ~failed, ~before PROVE ArgumentsAreWords
    BY DEF ArgumentsAreWords
  <2> DEFINE s == String(out, 0)
  <2>1. FitsBuffer(s)
    BY LineFits DEF ParseInv
  <2>2. Arguments(s, Len(s), args)
    BY DEF ParseInv, Parsed
  <2> HIDE DEF s
  <2>3. StartBy(s, Len(s)) = WordsOf(s)
    <3>1. Len(s) \in Nat
      BY <2>1 DEF FitsBuffer
    <3>2. \A w \in WordsOf(s) : w[1] <= Len(s)
      BY <3>1 DEF WordsOf
    <3> QED
      BY <3>2, Zenon DEF StartBy
  <2>4. /\ Len(args) = Cardinality(WordsOf(s))
        /\ \A w \in WordsOf(s) :
             args[Cardinality({v \in WordsOf(s) : v[1] <= w[1]})] =
               SubSeq(s, w[1], LastKept(w[1], w[2]))
    BY <2>2, <2>3, Zenon DEF Arguments, StartBy
  <2> QED
    BY <2>4, Zenon DEF ArgumentsAreWords, WordsOf, s
<1> QED
  BY <1>1, <1>2, <1>3, PTL DEF LineSpec
=============================================================================
