------------------------------ MODULE Keyboard ------------------------------
(***************************************************************************)
(* The keyboard driver and the key buffers of the processes                *)
(* (src/keyboard/keyboard.c, classic.c, struct keyboard_buffer in          *)
(* src/task/process.h).                                                    *)
(*                                                                         *)
(* Every process has a ring of keys.  The interrupt handler pushes to the  *)
(* process with the keyboard (process_current), getkey pops from the       *)
(* process of the running task; here both are any process, the Console     *)
(* module ties them to the scheduler.  A character is its name; NUL is the *)
(* zero byte, which marks an empty entry.                                  *)
(*                                                                         *)
(* head and tail are ints that only grow; used modulo the (unsigned) size  *)
(* of the ring they behave like counters modulo Word, a multiple of it.    *)
(*                                                                         *)
(* unread and lost are history variables: the keys pushed for a process    *)
(* and not yet returned to it, and whether one was pushed when the ring    *)
(* was full.                                                               *)
(***************************************************************************)
EXTENDS Naturals, Sequences

CONSTANTS
    Procs,       \* processes
    BufferSize,  \* MAEROS_KEYBOARD_BUFFER_SIZE: 1024
    Word,        \* 2^32
    Scancodes    \* scan codes that the keyboard sends

ASSUME BufferAssumption == BufferSize \in Nat \ {0}
ASSUME WordAssumption == Word \in Nat \ {0} /\ Word % BufferSize = 0

VARIABLES
    keyboard,        \* per process: buffer, tail, head
    capslock_state,  \* TRUE when caps lock is on
    unread, lost

kbVars == <<keyboard, capslock_state, unread, lost>>

NUL == "NUL"

CLASSIC_KEYBOARD_CAPSLOCK == 58
CLASSIC_KEYBOARD_KEY_RELEASED == 128

\* keyboard_scan_set_one for one key of each kind: a digit, a letter, caps lock.
TableSize == 82
keyboard_scan_set_one ==
    [s \in {2, 30, 58} |-> CASE s = 2 -> "1" [] s = 30 -> "A" [] s = 58 -> NUL]

\* The other codes of the table stand for keys like these.
ASSUME ScancodeAssumption ==
    Scancodes \subseteq DOMAIN keyboard_scan_set_one \cup TableSize .. 255

ToLower(c) == IF c = "A" THEN "a" ELSE c

\* What the byte behind the table may be: nothing that is pushed, or something that is.
PastTable == {NUL, "A"}

EmptyRing == [buffer |-> [k \in 0 .. BufferSize - 1 |-> NUL], tail |-> 0, head |-> 0]

KeyboardInit ==
    /\ keyboard = [p \in Procs |-> EmptyRing]
    /\ capslock_state = FALSE
    /\ unread = [p \in Procs |-> <<>>]
    /\ lost = [p \in Procs |-> FALSE]

-----------------------------------------------------------------------------
\* The key is stored at the tail, whether the ring is full or not.
PushRing(ring, c) ==
    [ring EXCEPT !.buffer[ring.tail % BufferSize] = c, !.tail = (@ + 1) % Word]

\* keyboard_push of the character that a key gave.
keyboard_push(p, c) ==
    LET overrun == lost[p] \/ Len(unread[p]) = BufferSize
    IN  /\ keyboard' = [keyboard EXCEPT ![p] = PushRing(@, c)]
        /\ lost' = [lost EXCEPT ![p] = overrun]
        /\ unread' = [unread EXCEPT ![p] = IF overrun THEN <<>> ELSE Append(@, c)]

\* The characters that classic_keyboard_scancode_to_char can return.  Its test lets
\* scancode = TableSize through, which is one past the table.
classic_keyboard_scancode_to_char(scancode, caps) ==
    LET bytes == CASE scancode > TableSize -> {NUL}
                   [] scancode = TableSize -> PastTable
                   [] OTHER -> {keyboard_scan_set_one[scancode]}
    IN  IF caps THEN bytes ELSE {ToLower(c) : c \in bytes}

\* The keyboard interrupt for process p.  A key that is released is ignored; caps lock
\* toggles; a character other than 0 is pushed.
classic_keyboard_handle_interrupt(p, scancode) ==
    /\ scancode < CLASSIC_KEYBOARD_KEY_RELEASED
    /\ capslock_state' = IF scancode = CLASSIC_KEYBOARD_CAPSLOCK
                         THEN ~capslock_state ELSE capslock_state
    /\ \E c \in classic_keyboard_scancode_to_char(scancode, capslock_state') :
         IF c = NUL THEN UNCHANGED <<keyboard, unread, lost>>
                    ELSE keyboard_push(p, c)

KeyReleased(scancode) == scancode >= CLASSIC_KEYBOARD_KEY_RELEASED /\ UNCHANGED kbVars

PopRing(ring) ==
    [ring EXCEPT !.buffer[ring.head % BufferSize] = NUL, !.head = (@ + 1) % Word]

\* What keyboard_pop returns: the entry at the head, 0 when it is empty.
Popped(ring) == ring.buffer[ring.head % BufferSize]

\* getkey by process p; with an empty entry at the head it returns 0 and changes
\* nothing.
keyboard_pop(p) ==
    /\ Popped(keyboard[p]) # NUL
    /\ keyboard' = [keyboard EXCEPT ![p] = PopRing(@)]
    /\ unread' = [unread EXCEPT ![p] = IF @ = <<>> THEN @ ELSE Tail(@)]
    /\ UNCHANGED <<capslock_state, lost>>

\* Mutant: the structure is not zeroed.
ProcessInitKeepsRing(p) ==
    /\ unread' = [unread EXCEPT ![p] = <<>>]
    /\ lost' = [lost EXCEPT ![p] = FALSE]
    /\ UNCHANGED <<keyboard, capslock_state>>

\* A process is loaded: its structure comes zeroed from the heap.
process_init(p) ==
    /\ keyboard' = [keyboard EXCEPT ![p] = EmptyRing]
    /\ unread' = [unread EXCEPT ![p] = <<>>]
    /\ lost' = [lost EXCEPT ![p] = FALSE]
    /\ UNCHANGED capslock_state

-----------------------------------------------------------------------------
\* The ring holds exactly the keys q, oldest at the head, and empty entries behind.
Holds(ring, q) ==
    /\ Len(q) <= BufferSize
    /\ ring.tail = (ring.head + Len(q)) % Word
    /\ \A k \in 0 .. BufferSize - 1 :
         ring.buffer[(ring.head + k) % BufferSize]
            = IF k < Len(q) THEN q[k + 1] ELSE NUL
=============================================================================
