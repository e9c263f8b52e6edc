---------------------------- MODULE CommandLine -----------------------------
(***************************************************************************)
(* A program that reads lines and runs them as commands with the user      *)
(* library: peachos_terminal_readline, strtok, peachos_parse_command and   *)
(* maeros_system_run (src/programs/stdlib/src/peachos.c, string.c), with   *)
(* the terminal of the kernel that shows what is typed.                    *)
(*                                                                         *)
(* The program prints a prompt, reads a line with output_while_typing,     *)
(* prints a newline and runs the line, again and again, as the loop does   *)
(* that src/programs/shell/src/shell.c keeps in comments.                  *)
(*                                                                         *)
(* scommand is the buffer of peachos_parse_command.  It lies on the stack, *)
(* at the same place in every call; between two calls anything may be      *)
(* left there.  sp is strtok's static pointer, an index of scommand,       *)
(* NoPointer, or Stray.  It lies in the bss, which the kernel does not     *)
(* clear but maps on the bytes of the program file that are there: Stray   *)
(* stands for any other value that they may be.  In shell.elf and          *)
(* blank.elf they are padding of the ELF header, and zero.                 *)
(*                                                                         *)
(* spoiled, failed and before are history variables: whether the cursor    *)
(* has left the row of the prompt or a backspace was typed at the start of *)
(* the line, and whether a malloc has failed for this line and for the one *)
(* before.                                                                 *)
(***************************************************************************)
EXTENDS Terminal, Integers, FiniteSets

CONSTANTS
    Prompt,  \* one of Letters
    Keys,    \* Letters that are typed
    max,     \* size of the program's buffer: 1024
    ArgumentSize  \* size of an argument: 512

ASSUME PromptAssumption == Prompt \in Letters /\ Keys \subseteq Letters
ASSUME MaxAssumption == max \in Nat \ {0} /\ ArgumentSize \in Nat \ {0}

VARIABLES phase, out, i, scommand, sp, token, args, spoiled, failed, before

lineVars == <<phase, out, i, scommand, sp, token, args, spoiled, failed, before>>
allVars == <<vars, lineVars>>

NUL == "NUL"
BACKSPACE == "BS"
SPACE == " "
NoPointer == -1
Stray == -2
Buffer == 0 .. max - 1

LineInit ==
    /\ Init
    /\ phase = "prompt"
    /\ out = [k \in Buffer |-> NUL] /\ i = 0
    /\ scommand = [k \in Buffer |-> NUL] /\ sp \in {NoPointer, Stray} /\ token = NoPointer
    /\ args = <<>> /\ spoiled = FALSE /\ failed = FALSE /\ before = FALSE

-----------------------------------------------------------------------------
\* The characters of a string in memory from k on, up to the zero byte.
String(mem, k) ==
    LET end == CHOOSE j \in k .. max :
                 /\ j = max \/ mem[j] = NUL
                 /\ \A h \in k .. j - 1 : mem[h] # NUL
    IN  [h \in 1 .. end - k |-> mem[k + h - 1]]

print_prompt ==
    /\ phase = "prompt"
    /\ writechar(Prompt)
    /\ phase' = "read" /\ i' = 0 /\ spoiled' = (terminal_row' # terminal_row)
    /\ UNCHANGED <<out, scommand, sp, token, args, failed, before>>

\* maeros_putchar
Echo(key) == IF key = BACKSPACE THEN terminal_backspace \/ backspace_at_origin
                                ELSE writechar(key)

\* Mutant: the loop's own step is not made up for.
ReadlineStaysAfterBackspace(key) ==
    /\ phase = "read" /\ i < max - 1
    /\ Echo(key)
    /\ IF key = BACKSPACE /\ i >= 1
       THEN out' = [out EXCEPT ![i - 1] = NUL] /\ i' = i
       ELSE out' = [out EXCEPT ![i] = key] /\ i' = i + 1
    /\ spoiled' = (spoiled \/ (key = BACKSPACE /\ i = 0) \/ terminal_row' # terminal_row)
    /\ UNCHANGED <<phase, scommand, sp, token, args, failed, before>>

\* A backspace takes the last character back; as the first key it is stored.
peachos_terminal_readline(key) ==
    /\ phase = "read" /\ i < max - 1
    /\ Echo(key)
    /\ IF key = BACKSPACE /\ i >= 1
       THEN out' = [out EXCEPT ![i - 1] = NUL] /\ i' = i - 1
       ELSE out' = [out EXCEPT ![i] = key] /\ i' = i + 1
    /\ spoiled' = (spoiled \/ (key = BACKSPACE /\ i = 0) \/ terminal_row' # terminal_row)
    /\ UNCHANGED <<phase, scommand, sp, token, args, failed, before>>

\* Carriage return, or a full buffer; the program goes to the next row.
LineRead ==
    /\ phase = "read"
    /\ newline
    /\ out' = [out EXCEPT ![i] = NUL]
    /\ phase' = "parse"
    /\ before' = failed /\ failed' = FALSE
    /\ UNCHANGED <<i, scommand, sp, token, args, spoiled>>

-----------------------------------------------------------------------------
\* The first index from k on whose character is none of cs.
SkipOver(mem, k, cs) ==
    CHOOSE j \in k .. max : (j = max \/ mem[j] \notin cs) /\ \A h \in k .. j - 1 : mem[h] \in cs

\* Mutant: at the end of the string the pointer stays.
StrtokKeepsPointer(mem, p) ==
    LET start == SkipOver(mem, p, {SPACE})
        end == start + Len(String(mem, start))
        stop == CHOOSE j \in start .. end :
                  (j = end \/ mem[j] = SPACE) /\ \A h \in start .. j - 1 : mem[h] # SPACE
    IN  IF start = max \/ mem[start] = NUL
        THEN [mem |-> mem, sp |-> start, token |-> NoPointer]
        ELSE IF stop < end
        THEN [mem |-> [mem EXCEPT ![stop] = NUL], sp |-> stop + 1, token |-> start]
        ELSE [mem |-> mem, sp |-> stop, token |-> start]

\* strtok from its pointer p on, with a space as the only delimiter: spaces are skipped;
\* at the end of the string the pointer is reset; otherwise the token ends with a zero
\* byte in place of the space, and the pointer stands behind it.
strtok(mem, p) ==
    LET start == SkipOver(mem, p, {SPACE})
        end == start + Len(String(mem, start))
        stop == CHOOSE j \in start .. end :
                  (j = end \/ mem[j] = SPACE) /\ \A h \in start .. j - 1 : mem[h] # SPACE
    IN  IF start = max \/ mem[start] = NUL
        THEN [mem |-> mem, sp |-> NoPointer, token |-> NoPointer]
        ELSE IF stop < end
        THEN [mem |-> [mem EXCEPT ![stop] = NUL], sp |-> stop + 1, token |-> start]
        ELSE [mem |-> mem, sp |-> stop, token |-> start]

\* strncpy of a string to memory of which nothing is known.
Copied(string, junk) ==
    [k \in Buffer |-> IF k < Len(string) THEN string[k + 1]
                      ELSE IF k = Len(string) THEN NUL ELSE junk[k]]

\* peachos_parse_command starts: strtok takes its argument only if it has no pointer.
ParseStarts(junk) ==
    /\ phase = "parse" /\ sp # Stray
    /\ LET mem == Copied(String(out, 0), junk)
           t == strtok(mem, IF sp = NoPointer THEN 0 ELSE sp)
       IN  /\ scommand' = t.mem /\ sp' = t.sp /\ token' = t.token
    /\ args' = <<>> /\ phase' = "malloc"
    /\ UNCHANGED <<vars, out, i, spoiled, failed, before>>

\* strtok reads and cuts memory of which nothing is known: what it does is not followed.
StrayPointer ==
    /\ phase = "parse" /\ sp = Stray
    /\ phase' = "wild"
    /\ UNCHANGED <<vars, out, i, scommand, sp, token, args, spoiled, failed, before>>

\* strncpy to an argument: what does not fit with its zero byte is left out.
Argument(string) ==
    IF Len(string) < ArgumentSize THEN string ELSE SubSeq(string, 1, ArgumentSize - 1)

\* Memory for the argument, then the next token.
NextArgument ==
    /\ phase = "malloc" /\ token # NoPointer
    /\ args' = Append(args, Argument(String(scommand, token)))
    /\ LET t == strtok(scommand, sp)
       IN  scommand' = t.mem /\ sp' = t.sp /\ token' = t.token
    /\ UNCHANGED <<vars, phase, out, i, spoiled, failed, before>>

\* No memory: the command is what has been parsed, and strtok keeps its pointer.
MallocFails ==
    /\ phase = "malloc" /\ token # NoPointer
    /\ phase' = "run" /\ failed' = TRUE
    /\ UNCHANGED <<vars, out, i, scommand, sp, token, args, spoiled, before>>

ParseEnds ==
    /\ phase = "malloc" /\ token = NoPointer
    /\ phase' = "run"
    /\ UNCHANGED <<vars, out, i, scommand, sp, token, args, spoiled, failed, before>>

\* maeros_system, or nothing without a first argument; then the next line, for which the
\* program has a new buffer.  Only strtok remembers anything.
maeros_system_run ==
    /\ phase = "run" /\ phase' = "prompt"
    /\ args' = <<>> /\ token' = NoPointer /\ i' = 0
    /\ scommand' = [k \in Buffer |-> NUL] /\ out' = [k \in Buffer |-> NUL]
    /\ spoiled' = FALSE /\ before' = FALSE
    /\ UNCHANGED <<vars, sp, failed>>

LineNext ==
    \/ /\ ~overwritten
       /\ \/ print_prompt
          \/ \E key \in Keys \cup {BACKSPACE} : peachos_terminal_readline(key)
          \/ LineRead
          \/ \E junk \in [Buffer -> {NUL} \cup Keys] : ParseStarts(junk)
          \/ StrayPointer
          \/ NextArgument \/ MallocFails \/ ParseEnds
          \/ maeros_system_run
    \/ (overwritten \/ phase = "wild") /\ UNCHANGED allVars

LineSpec == LineInit /\ [][LineNext]_allVars

-----------------------------------------------------------------------------
\* As long as no backspace was typed at the start of the line and the kernel stands, the
\* buffer of readline holds what the row of the screen shows behind the prompt, for every
\* mixture of characters and backspaces that stays in the row.
BufferIsShown ==
    phase = "read" /\ ~spoiled /\ ~overwritten =>
        line = <<Prompt>> \o [k \in 1 .. i |-> out[k - 1]]

\* The words of a line: its longest runs without a space.
IsWord(s, a, b) ==
    /\ a <= b /\ \A k \in a .. b : s[k] # SPACE
    /\ a = 1 \/ s[a - 1] = SPACE
    /\ b = Len(s) \/ s[b + 1] = SPACE

\* The last character of a word from a to b that an argument has room for.
LastKept(a, b) == IF b - a < ArgumentSize - 1 THEN b ELSE a + (ArgumentSize - 2)

\* The command that is run has the words of the line as its arguments, in order and all
\* of them, each up to the characters that an argument has room for, unless a malloc has
\* failed for this line or for the one before.  A program whose strtok starts with a
\* stray pointer runs no command.
ArgumentsAreWords ==
    phase = "run" /\ ~failed /\ ~before =>
        LET s == String(out, 0)
            words == {w \in (1 .. Len(s)) \X (1 .. Len(s)) : IsWord(s, w[1], w[2])}
            Nth(w) == Cardinality({v \in words : v[1] <= w[1]})
        IN  /\ Len(args) = Cardinality(words)
            /\ \A w \in words : args[Nth(w)] = SubSeq(s, w[1], LastKept(w[1], w[2]))
=============================================================================
