---------------------------- MODULE ConsoleProofs ---------------------------
(***************************************************************************)
(* Proofs about Console: for any number of processes, every ring size and  *)
(* every word, a process reads its own keys in order.                      *)
(***************************************************************************)
EXTENDS Console, TLAPS

\* Quotient and remainder.
LEMMA DivMod ==
    ASSUME NEW a \in Nat, NEW m \in Nat \ {0}
    PROVE  a = m * (a \div m) + (a % m) /\ a \div m \in Nat /\ a % m \in 0 .. m - 1
  OBVIOUS

\* There is only one.
LEMMA ModUnique ==
    ASSUME NEW m \in Nat \ {0}, NEW q \in Nat, NEW r \in 0 .. m - 1, NEW a \in Nat,
           a = m * q + r
    PROVE  a % m = r
<1> DEFINE p == a \div m
           s == a % m
<1>1. p \in Nat /\ s \in 0 .. m - 1 /\ a = m * p + s
  BY DivMod
<1> HIDE DEF p, s
<1>2. CASE p = q
  BY <1>1, <1>2 DEF s
<1>3. CASE p < q
  <2>1. PICK d \in Nat : q = p + 1 + d
    <3>1. q - p - 1 \in Nat /\ q = p + 1 + (q - p - 1)
      BY <1>1, <1>3
    <3> QED
      BY <3>1
  <2>2. m * q = m * p + m + m * d /\ m * d \in Nat
    BY <1>1, <2>1
  <2> QED
    BY <1>1, <2>2
<1>4. CASE q < p
  <2>1. PICK d \in Nat : p = q + 1 + d
    <3>1. p - q - 1 \in Nat /\ p = q + 1 + (p - q - 1)
      BY <1>1, <1>4
    <3> QED
      BY <3>1
  <2>2. m * p = m * q + m + m * d /\ m * d \in Nat
    BY <1>1, <2>1
  <2> QED
    BY <1>1, <2>2
<1> QED
  BY <1>1, <1>2, <1>3, <1>4

\* Multiples of the modulus do not count.
LEMMA ModPlus ==
    ASSUME NEW m \in Nat \ {0}, NEW a \in Nat, NEW k \in Nat
    PROVE  (m * k + a) % m = a % m
<1> DEFINE q == a \div m
           r == a % m
           x == m * k + a
<1>1. q \in Nat /\ r \in 0 .. m - 1 /\ a = m * q + r
  BY DivMod
<1>2. x = m * (k + q) + r /\ x \in Nat /\ k + q \in Nat
  BY <1>1
<1> HIDE DEF q, r, x
<1>3. x % m = r
  BY <1>1, <1>2, ModUnique
<1> QED
  BY <1>3 DEF x, r

\* A counter that wraps at a multiple of the modulus is as good as one that does not.
LEMMA ModWraps ==
    ASSUME NEW m \in Nat \ {0}, NEW w \in Nat \ {0}, w % m = 0, NEW a \in Nat, NEW b \in Nat
    PROVE  ((a % w) + b) % m = (a + b) % m
<1> DEFINE k == w \div m
           d == a \div w
           e == a % w
<1>1. k \in Nat /\ w = m * k
  BY DivMod
<1>2. d \in Nat /\ e \in Nat /\ a = w * d + e
  BY DivMod
<1> HIDE DEF k, d, e
<1>3. k * d \in Nat /\ e + b \in Nat /\ a + b = m * (k * d) + (e + b)
  <2>1. w * d = m * (k * d)
    BY <1>1, <1>2
  <2> QED
    BY <1>1, <1>2, <2>1
<1>4. (m * (k * d) + (e + b)) % m = (e + b) % m
  BY <1>3, ModPlus
<1> QED
  BY <1>3, <1>4 DEF e

\* Different entries of the ring have different places.
LEMMA PlacesDiffer ==
    ASSUME NEW m \in Nat \ {0}, NEW h \in Nat, NEW i \in 0 .. m - 1, NEW j \in 0 .. m - 1,
           (h + i) % m = (h + j) % m
    PROVE  i = j
<1> DEFINE q == h \div m
           r == h % m
<1>1. q \in Nat /\ r \in 0 .. m - 1 /\ h = m * q + r
  BY DivMod
<1> HIDE DEF q, r
<1>2. ASSUME NEW k \in 0 .. m - 1
      PROVE  (h + k) % m = IF r + k < m THEN r + k ELSE r + k - m
  <2>1. h + k = m * q + (r + k) /\ h + k \in Nat
    BY <1>1
  <2>2. CASE r + k < m
    <3>1. r + k \in 0 .. m - 1
      BY <1>1, <2>2
    <3>2. (h + k) % m = r + k
      BY <1>1, <2>1, <3>1, ModUnique
    <3> QED
      BY <2>2, <3>2
  <2>3. CASE r + k >= m
    <3> DEFINE s == r + k - m
    <3>1. s \in 0 .. m - 1 /\ q + 1 \in Nat /\ h + k = m * (q + 1) + s
      BY <1>1, <2>1, <2>3
    <3> HIDE DEF s
    <3>2. (h + k) % m = s
      BY <2>1, <3>1, ModUnique
    <3> QED
      BY <1>1, <2>3, <3>2 DEF s
  <2> QED
    BY <1>1, <2>2, <2>3
<1>3. (h + i) % m = IF r + i < m THEN r + i ELSE r + i - m
  BY <1>2
<1>4. (h + j) % m = IF r + j < m THEN r + j ELSE r + j - m
  BY <1>2
<1> QED
  BY <1>1, <1>3, <1>4

-----------------------------------------------------------------------------
Chars == {NUL, "1", "A", "a"}

Places == 0 .. BufferSize - 1

Ring == [buffer : [Places -> Chars], tail : 0 .. Word - 1, head : 0 .. Word - 1]

\* Counters modulo Word, as counters and as places.
LEMMA CounterWraps ==
    ASSUME NEW a \in Nat, NEW b \in Nat
    PROVE  /\ ((a % Word) + b) % Word = (a + b) % Word
           /\ ((a % Word) + b) % BufferSize = (a + b) % BufferSize
           /\ (a % Word) % BufferSize = a % BufferSize
<1>1. /\ BufferSize \in Nat \ {0} /\ Word \in Nat \ {0} /\ Word % BufferSize = 0
      /\ Word % Word = 0 /\ a % Word \in Nat /\ 0 \in Nat
  BY BufferAssumption, WordAssumption
<1>2. ((a % Word) + b) % Word = (a + b) % Word
  BY <1>1, ModWraps, ZenonT(30)
<1>3. ((a % Word) + b) % BufferSize = (a + b) % BufferSize
  BY <1>1, ModWraps, ZenonT(30)
<1>4. ((a % Word) + 0) % BufferSize = (a + 0) % BufferSize
  BY <1>1, ModWraps, ZenonT(30)
<1> QED
  BY <1>1, <1>2, <1>3, <1>4

\* The steps of head and tail.
LEMMA CounterSteps ==
    ASSUME NEW h \in Nat, NEW n \in Nat
    PROVE  /\ (((h + n) % Word) + 1) % Word = (h + (n + 1)) % Word
           /\ ((h + n) % Word) % BufferSize = (h + n) % BufferSize
           /\ n # 0 => (((h + 1) % Word) + (n - 1)) % Word = (h + n) % Word
           /\ (((h + 1) % Word) + n) % BufferSize = (h + (n + 1)) % BufferSize
<1>1. h + n \in Nat /\ h + 1 \in Nat /\ 1 \in Nat /\ (n # 0 => n - 1 \in Nat)
      /\ (h + n) + 1 = h + (n + 1) /\ (h + 1) + (n - 1) = h + n /\ (h + 1) + n = h + (n + 1)
  OBVIOUS
<1>2. (((h + n) % Word) + 1) % Word = ((h + n) + 1) % Word
  BY <1>1, CounterWraps
<1>3. ((h + n) % Word) % BufferSize = (h + n) % BufferSize
  BY <1>1, CounterWraps
<1>4. n # 0 => (((h + 1) % Word) + (n - 1)) % Word = ((h + 1) + (n - 1)) % Word
  BY <1>1, CounterWraps
<1>5. (((h + 1) % Word) + n) % BufferSize = ((h + 1) + n) % BufferSize
  BY <1>1, CounterWraps
<1> QED
  BY <1>1, <1>2, <1>3, <1>4, <1>5

\* The place of entry k.
At(ring, k) == (ring.head + k) % BufferSize

\* What PushRing does to a ring.
LEMMA PushFacts ==
    ASSUME NEW ring \in Ring, NEW c \in Chars
    PROVE  LET r == PushRing(ring, c)
               at == ring.tail % BufferSize
           IN  /\ r \in Ring
               /\ r.head = ring.head /\ r.tail = (ring.tail + 1) % Word
               /\ r.buffer[at] = c
               /\ \A k \in Places \ {at} : r.buffer[k] = ring.buffer[k]
<1> DEFINE at == ring.tail % BufferSize
           t == (ring.tail + 1) % Word
           b == [ring.buffer EXCEPT ![at] = c]
           a == [ring EXCEPT !.buffer = b]
           r == [a EXCEPT !.tail = t]
<1>1. at \in Places /\ t \in 0 .. Word - 1
  BY BufferAssumption, WordAssumption DEF Ring, Places
<1>2. PushRing(ring, c) = r
  <2>1. [ring EXCEPT !.buffer[at] = c] = a /\ [ring EXCEPT !.buffer[at] = c].tail = ring.tail
    BY DEF Ring
  <2>2. PushRing(ring, c) = [[ring EXCEPT !.buffer[at] = c] EXCEPT !.tail = (@ + 1) % Word]
    BY Zenon DEF PushRing
  <2> QED
    BY <2>1, <2>2, Zenon
<1> HIDE DEF at, t
<1>3. b \in [Places -> Chars] /\ b[at] = c /\ \A k \in Places \ {at} : b[k] = ring.buffer[k]
  BY <1>1 DEF Ring
<1> HIDE DEF b
<1>4. a \in Ring /\ a.buffer = b /\ a.head = ring.head
  BY <1>3 DEF Ring
<1> HIDE DEF a
<1>5. r \in Ring /\ r.buffer = b /\ r.head = ring.head /\ r.tail = t
  BY <1>1, <1>4 DEF Ring
<1> HIDE DEF r
<1> QED
  BY <1>2, <1>3, <1>5 DEF at, t

\* What PopRing does to a ring.
LEMMA PopFacts ==
    ASSUME NEW ring \in Ring
    PROVE  LET r == PopRing(ring)
               at == ring.head % BufferSize
           IN  /\ r \in Ring
               /\ r.tail = ring.tail /\ r.head = (ring.head + 1) % Word
               /\ r.buffer[at] = NUL
               /\ \A k \in Places \ {at} : r.buffer[k] = ring.buffer[k]
<1> DEFINE at == ring.head % BufferSize
           t == (ring.head + 1) % Word
           b == [ring.buffer EXCEPT ![at] = NUL]
           a == [ring EXCEPT !.buffer = b]
           r == [a EXCEPT !.head = t]
<1>1. at \in Places /\ t \in 0 .. Word - 1 /\ NUL \in Chars
  BY BufferAssumption, WordAssumption DEF Ring, Places, Chars
<1>2. PopRing(ring) = r
  <2>1. [ring EXCEPT !.buffer[at] = NUL] = a /\ [ring EXCEPT !.buffer[at] = NUL].head = ring.head
    BY DEF Ring
  <2>2. PopRing(ring) = [[ring EXCEPT !.buffer[at] = NUL] EXCEPT !.head = (@ + 1) % Word]
    BY Zenon DEF PopRing
  <2> QED
    BY <2>1, <2>2, Zenon
<1> HIDE DEF at, t
<1>3. b \in [Places -> Chars] /\ b[at] = NUL /\ \A k \in Places \ {at} : b[k] = ring.buffer[k]
  BY <1>1 DEF Ring
<1> HIDE DEF b
<1>4. a \in Ring /\ a.buffer = b /\ a.tail = ring.tail
  BY <1>3 DEF Ring
<1> HIDE DEF a
<1>5. r \in Ring /\ r.buffer = b /\ r.tail = ring.tail /\ r.head = t
  BY <1>1, <1>4 DEF Ring
<1> HIDE DEF r
<1> QED
  BY <1>2, <1>3, <1>5 DEF at, t

\* Places of the ring.
LEMMA AtFacts ==
    ASSUME NEW ring \in Ring
    PROVE  /\ \A k \in Nat : At(ring, k) \in Places
           /\ \A j, k \in Places : At(ring, j) = At(ring, k) => j = k
           /\ \A n \in Nat : ring.tail = (ring.head + n) % Word
                               => ring.tail % BufferSize = At(ring, n)
           /\ ring.head % BufferSize = At(ring, 0)
<1>1. /\ BufferSize \in Nat \ {0} /\ Word \in Nat \ {0} /\ Word % BufferSize = 0
      /\ ring.head \in Nat
  BY BufferAssumption, WordAssumption DEF Ring
<1>2. \A k \in Nat : At(ring, k) \in Places
  BY <1>1 DEF At, Places
<1>3. \A j, k \in Places : At(ring, j) = At(ring, k) => j = k
  BY <1>1, PlacesDiffer DEF At, Places
<1>4. ASSUME NEW n \in Nat, ring.tail = (ring.head + n) % Word
      PROVE  ring.tail % BufferSize = At(ring, n)
  <2>1. ((ring.head + n) % Word) % BufferSize = (ring.head + n) % BufferSize
    BY <1>1, CounterSteps
  <2> QED
    BY <1>4, <2>1, Zenon DEF At
<1>5. ring.head % BufferSize = At(ring, 0)
  BY <1>1 DEF At
<1> QED
  BY <1>2, <1>3, <1>4, <1>5

\* A ring with room gets one more key, behind the others.
LEMMA PushHolds ==
    ASSUME NEW ring \in Ring, NEW q \in Seq(Chars), Holds(ring, q), Len(q) # BufferSize,
           NEW c \in Chars
    PROVE  Holds(PushRing(ring, c), Append(q, c))
<1> DEFINE n == Len(q)
           r == PushRing(ring, c)
           u == Append(q, c)
<1>1. /\ BufferSize \in Nat \ {0} /\ Word \in Nat \ {0}
      /\ ring.head \in Nat /\ n \in Nat /\ n < BufferSize /\ n \in Places
      /\ ring.tail = (ring.head + n) % Word
      /\ \A k \in Places : ring.buffer[At(ring, k)] = IF k < n THEN q[k + 1] ELSE NUL
  BY BufferAssumption, WordAssumption DEF Ring, Holds, Places, At
<1>2. Len(u) = n + 1 /\ u[n + 1] = c /\ \A k \in Places : k < n => u[k + 1] = q[k + 1]
  BY DEF Places
<1> HIDE DEF n, u
<1>3. /\ r.head = ring.head
      /\ r.tail = (ring.tail + 1) % Word
      /\ r.buffer[At(ring, n)] = c
      /\ \A k \in Places \ {At(ring, n)} : r.buffer[k] = ring.buffer[k]
  BY <1>1, PushFacts, AtFacts, SMTT(30)
<1> HIDE DEF r
<1>4. r.tail = (r.head + (n + 1)) % Word
  <2>1. (((ring.head + n) % Word) + 1) % Word = (ring.head + (n + 1)) % Word
    BY <1>1, CounterSteps
  <2> QED
    BY <1>1, <1>3, <2>1, Zenon
<1>5. ASSUME NEW k \in Places
      PROVE  r.buffer[At(ring, k)] = IF k < n + 1 THEN u[k + 1] ELSE NUL
  <2>1. At(ring, k) \in Places /\ k \in Nat
    BY AtFacts, BufferAssumption, SMTT(30) DEF Places
  <2>2. CASE k = n
    BY <1>1, <1>2, <1>3, <2>2
  <2>3. CASE k # n
    <3>1. At(ring, k) # At(ring, n)
      BY <1>1, <2>3, AtFacts
    <3>2. r.buffer[At(ring, k)] = IF k < n THEN q[k + 1] ELSE NUL
      BY <1>1, <1>3, <2>1, <3>1
    <3> QED
      BY <1>1, <1>2, <2>1, <2>3, <3>2
  <2> QED
    BY <2>2, <2>3
<1>6. Holds(r, u)
  BY <1>1, <1>2, <1>3, <1>4, <1>5 DEF Holds, Places, At
<1> QED
  BY <1>6 DEF r, u

\* What is read is the oldest key, and the ring then holds the others.
LEMMA PopHolds ==
    ASSUME NEW ring \in Ring, NEW q \in Seq(Chars), Holds(ring, q), Popped(ring) # NUL
    PROVE  q # <<>> /\ Popped(ring) = q[1] /\ Holds(PopRing(ring), Tail(q))
<1> DEFINE n == Len(q)
           r == PopRing(ring)
           u == Tail(q)
<1>1. /\ BufferSize \in Nat \ {0} /\ Word \in Nat \ {0} /\ Word % BufferSize = 0
      /\ ring.head \in Nat /\ n \in Nat /\ n <= BufferSize /\ 0 \in Places
      /\ ring.tail = (ring.head + n) % Word
      /\ \A k \in Places : ring.buffer[At(ring, k)] = IF k < n THEN q[k + 1] ELSE NUL
  BY BufferAssumption, WordAssumption DEF Ring, Holds, Places, At
<1>2. Popped(ring) = ring.buffer[At(ring, 0)]
  BY AtFacts DEF Popped
<1>3. n # 0 /\ Popped(ring) = q[1]
  BY <1>1, <1>2
<1>4. q # <<>> /\ Len(u) = n - 1 /\ \A k \in Places : k < n - 1 => u[k + 1] = q[k + 2]
  BY <1>1, <1>3 DEF Places
<1> HIDE DEF n, u
<1>5. /\ r.head = (ring.head + 1) % Word
      /\ r.tail = ring.tail
      /\ r.buffer[At(ring, 0)] = NUL
      /\ \A k \in Places \ {At(ring, 0)} : r.buffer[k] = ring.buffer[k]
  BY <1>1, PopFacts, AtFacts
<1> HIDE DEF r
<1>6. r.tail = (r.head + (n - 1)) % Word
  <2>1. (((ring.head + 1) % Word) + (n - 1)) % Word = (ring.head + n) % Word
    <3>1. ring.head \in Nat /\ n \in Nat /\ n # 0
      BY <1>1, <1>3
    <3> QED
      BY <3>1, CounterSteps
  <2>2. r.tail = (ring.head + n) % Word /\ r.head = (ring.head + 1) % Word
    BY <1>1, <1>5
  <2> QED
    BY <2>1, <2>2, Zenon
<1>7. ASSUME NEW k \in Places
      PROVE  r.buffer[At(r, k)] = IF k < n - 1 THEN u[k + 1] ELSE NUL
  <2>0. k \in Nat
    BY <1>1 DEF Places
  <2>1. At(r, k) = (ring.head + (k + 1)) % BufferSize /\ k \in Nat
    <3>1. (((ring.head + 1) % Word) + k) % BufferSize = (ring.head + (k + 1)) % BufferSize
      BY <1>1, <2>0, CounterSteps
    <3> QED
      BY <1>5, <2>0, <3>1 DEF At
  <2>2. CASE k = BufferSize - 1
    <3>1. ring.head + (k + 1) = BufferSize * 1 + ring.head /\ 1 \in Nat
      BY <1>1, <2>2
    <3>2. (BufferSize * 1 + ring.head) % BufferSize = ring.head % BufferSize
      BY <1>1, <3>1, ModPlus
    <3>3. At(r, k) = At(ring, 0)
      BY <2>1, <3>1, <3>2, AtFacts
    <3> QED
      BY <1>1, <1>5, <2>2, <3>3
  <2>3. CASE k # BufferSize - 1
    <3>1. k + 1 \in Places /\ k + 1 # 0
      BY <1>1, <2>1, <2>3 DEF Places
    <3>2. At(r, k) = At(ring, k + 1)
      BY <2>1 DEF At
    <3>3. At(ring, k + 1) # At(ring, 0) /\ At(ring, k + 1) \in Places
      BY <1>1, <2>1, <3>1, AtFacts
    <3>4. r.buffer[At(r, k)] = IF k + 1 < n THEN q[k + 1 + 1] ELSE NUL
      BY <1>1, <1>5, <3>1, <3>2, <3>3
    <3> QED
      BY <1>1, <1>4, <2>1, <3>4
  <2> QED
    BY <2>2, <2>3
<1>8. Holds(r, u)
  BY <1>1, <1>3, <1>4, <1>6, <1>7 DEF Holds, Places, At
<1> QED
  BY <1>3, <1>4, <1>8 DEF r, u

-----------------------------------------------------------------------------
\* The empty ring holds no keys.
LEMMA EmptyHolds == EmptyRing \in Ring /\ Holds(EmptyRing, <<>>)
<1>1. BufferSize \in Nat \ {0} /\ Word \in Nat \ {0} /\ 0 % Word = 0
  BY BufferAssumption, WordAssumption
<1>2. /\ EmptyRing \in Ring /\ EmptyRing.head = 0 /\ EmptyRing.tail = 0
      /\ \A k \in Places : EmptyRing.buffer[k] = NUL
  BY <1>1 DEF EmptyRing, Ring, Places, Chars
<1>3. \A k \in Places : k \in Nat /\ At(EmptyRing, k) \in Places
  BY <1>1, <1>2, AtFacts DEF Places
<1> QED
  BY <1>1, <1>2, <1>3 DEF Holds, At, Places

\* The inductive invariant: types, and the ring of every loaded process.
KInv ==
    /\ keyboard \in [Procs -> Ring]
    /\ unread \in [Procs -> Seq(Chars)]
    /\ lost \in [Procs -> BOOLEAN]
    /\ processes \in [Procs -> Cells \cup {NULL}]
    /\ OwnKeysInOrder

\* What the driver makes of a scan code is one of the characters.
LEMMA CharsOnly ==
    ASSUME NEW scancode \in Scancodes, NEW caps,
           NEW c \in classic_keyboard_scancode_to_char(scancode, caps)
    PROVE  c \in Chars
<1>1. scancode \in {2, 30, 58} \cup 82 .. 255
  BY ScancodeAssumption DEF keyboard_scan_set_one, TableSize
<1>2. CASE scancode \in 82 .. 255
  BY <1>2 DEF classic_keyboard_scancode_to_char, TableSize, PastTable, Chars, ToLower
<1>3. CASE scancode \in {2, 30, 58}
  <2>1. keyboard_scan_set_one[scancode] \in Chars
    BY <1>3 DEF keyboard_scan_set_one, Chars
  <2> QED
    BY <1>3, <2>1 DEF classic_keyboard_scancode_to_char, TableSize, Chars, ToLower
<1> QED
  BY <1>1, <1>2, <1>3

\* A key is pushed for a process.
LEMMA PushStep ==
    ASSUME KInv, NEW p, NEW c \in Chars, keyboard_push(p, c), processes' = processes
    PROVE  KInv'
<1> DEFINE overrun == lost[p] \/ Len(unread[p]) = BufferSize
           q == IF overrun THEN <<>> ELSE Append(unread[p], c)
           ring == PushRing(keyboard[p], c)
<1>1. /\ keyboard' = [keyboard EXCEPT ![p] = ring]
      /\ lost' = [lost EXCEPT ![p] = overrun]
      /\ unread' = [unread EXCEPT ![p] = q]
  BY Zenon DEF keyboard_push
<1>2. p \in Procs => /\ ring \in Ring /\ q \in Seq(Chars)
                     /\ processes[p] # NULL /\ ~overrun => Holds(ring, q)
  <2> SUFFICES ASSUME p \in Procs
               PROVE  /\ ring \in Ring /\ q \in Seq(Chars)
                      /\ processes[p] # NULL /\ ~overrun => Holds(ring, q)
    OBVIOUS
  <2>1. keyboard[p] \in Ring /\ unread[p] \in Seq(Chars)
    BY DEF KInv
  <2>2. q \in Seq(Chars)
    BY <2>1
  <2>3. ring \in Ring
    BY <2>1, PushFacts
  <2>4. processes[p] # NULL /\ ~overrun => Holds(ring, q)
    <3> SUFFICES ASSUME processes[p] # NULL, ~overrun PROVE Holds(ring, Append(unread[p], c))
      OBVIOUS
    <3>1. Holds(keyboard[p], unread[p]) /\ Len(unread[p]) # BufferSize
      BY DEF KInv, OwnKeysInOrder
    <3> QED
      BY <2>1, <3>1, PushHolds
  <2> QED
    BY <2>2, <2>3, <2>4
<1> HIDE DEF q, ring
<1>3. overrun \in BOOLEAN
  OBVIOUS
<1> HIDE DEF overrun
<1>4. lost' \in [Procs -> BOOLEAN]
  BY <1>1, <1>3, Zenon DEF KInv
<1>5. keyboard' \in [Procs -> Ring] /\ unread' \in [Procs -> Seq(Chars)]
  BY <1>1, <1>2 DEF KInv
<1>6. ASSUME NEW r \in Procs, processes[r] # NULL, ~lost'[r]
      PROVE  Holds(keyboard'[r], unread'[r])
  <2>1. CASE r = p
    <3>1. lost'[r] = overrun /\ keyboard'[r] = ring /\ unread'[r] = q
      BY <1>1, <2>1, Zenon DEF KInv
    <3> QED
      BY <1>2, <1>6, <2>1, <3>1
  <2>2. CASE r # p
    <3>1. lost'[r] = lost[r] /\ keyboard'[r] = keyboard[r] /\ unread'[r] = unread[r]
      BY <1>1, <2>2, Zenon DEF KInv
    <3> QED
      BY <1>6, <3>1 DEF KInv, OwnKeysInOrder
  <2> QED
    BY <2>1, <2>2
<1> QED
  BY <1>4, <1>5, <1>6 DEF KInv, OwnKeysInOrder

\* getkey.
LEMMA PopStep ==
    ASSUME KInv, NEW p \in Procs, keyboard_pop(p), processes' = processes
    PROVE  KInv'
<1> DEFINE q == IF unread[p] = <<>> THEN unread[p] ELSE Tail(unread[p])
           ring == PopRing(keyboard[p])
<1>1. /\ keyboard' = [keyboard EXCEPT ![p] = ring]
      /\ unread' = [unread EXCEPT ![p] = q]
      /\ lost' = lost
      /\ Popped(keyboard[p]) # NUL
  BY Zenon DEF keyboard_pop
<1>2. keyboard[p] \in Ring /\ unread[p] \in Seq(Chars)
  BY DEF KInv
<1>3. q \in Seq(Chars)
  BY <1>2
<1>4. ring \in Ring
  BY <1>2, PopFacts
<1>5. processes[p] # NULL /\ ~lost[p] => Holds(ring, q)
  <2> SUFFICES ASSUME processes[p] # NULL, ~lost[p] PROVE Holds(ring, q)
    OBVIOUS
  <2>1. Holds(keyboard[p], unread[p])
    BY DEF KInv, OwnKeysInOrder
  <2>2. unread[p] # <<>> /\ Holds(ring, Tail(unread[p]))
    BY <1>1, <1>2, <2>1, PopHolds
  <2> QED
    BY <2>2
<1> HIDE DEF q, ring
<1>6. keyboard' \in [Procs -> Ring] /\ unread' \in [Procs -> Seq(Chars)]
  BY <1>1, <1>3, <1>4 DEF KInv
<1>7. ASSUME NEW r \in Procs, processes[r] # NULL, ~lost[r]
      PROVE  Holds(keyboard'[r], unread'[r])
  BY <1>1, <1>5, <1>7 DEF KInv, OwnKeysInOrder
<1> QED
  BY <1>1, <1>6, <1>7 DEF KInv, OwnKeysInOrder

\* A process is loaded.
LEMMA LoadStep ==
    ASSUME KInv, NEW p, NEW task \in Cells, process_init(p),
           processes' = [processes EXCEPT ![p] = task]
    PROVE  KInv'
<1>1. /\ keyboard' = [keyboard EXCEPT ![p] = EmptyRing]
      /\ unread' = [unread EXCEPT ![p] = <<>>]
      /\ lost' = [lost EXCEPT ![p] = FALSE]
  BY DEF process_init
<1>2. lost' \in [Procs -> BOOLEAN]
  BY <1>1, Zenon DEF KInv
<1>3. /\ keyboard' \in [Procs -> Ring] /\ unread' \in [Procs -> Seq(Chars)]
      /\ processes' \in [Procs -> Cells \cup {NULL}]
  <2>1. <<>> \in Seq(Chars)
    OBVIOUS
  <2>2. unread' \in [Procs -> Seq(Chars)]
    BY <1>1, <2>1, Zenon DEF KInv
  <2> QED
    BY <1>1, <2>2, EmptyHolds DEF KInv
<1>4. ASSUME NEW r \in Procs, processes'[r] # NULL, ~lost'[r]
      PROVE  Holds(keyboard'[r], unread'[r])
  <2>1. CASE r = p
    BY <1>1, <2>1, EmptyHolds DEF KInv
  <2>2. CASE r # p
    <3>1. lost'[r] = lost[r] /\ keyboard'[r] = keyboard[r] /\ unread'[r] = unread[r]
          /\ processes'[r] = processes[r]
      BY <1>1, <2>2, Zenon DEF KInv
    <3> QED
      BY <1>4, <3>1 DEF KInv, OwnKeysInOrder
  <2> QED
    BY <2>1, <2>2
<1> QED
  BY <1>2, <1>3, <1>4 DEF KInv, OwnKeysInOrder

\* Every step preserves the invariant.
LEMMA KInvStep == KInv /\ [Next]_vars => KInv'
<1> SUFFICES ASSUME KInv, [Next]_vars PROVE KInv'
  OBVIOUS
<1>1. ASSUME NEW scancode \in Scancodes, KeyPressed(scancode) PROVE KInv'
  <2>1. processes' = processes
    BY <1>1 DEF KeyPressed, schedVars
  <2>2. CASE KeyReleased(scancode)
    BY <2>1, <2>2 DEF KeyReleased, kbVars, KInv, OwnKeysInOrder
  <2>3. CASE classic_keyboard_handle_interrupt(current_process, scancode)
    <3>1. PICK c \in classic_keyboard_scancode_to_char(scancode, capslock_state') :
            IF c = NUL THEN UNCHANGED <<keyboard, unread, lost>>
                       ELSE keyboard_push(current_process, c)
      BY <2>3 DEF classic_keyboard_handle_interrupt
    <3>2. c \in Chars
      BY <3>1, CharsOnly
    <3>3. CASE c = NUL
      BY <2>1, <3>1, <3>3 DEF KInv, OwnKeysInOrder
    <3>4. CASE c # NUL
      BY <2>1, <3>1, <3>2, <3>4, PushStep
    <3> QED
      BY <3>3, <3>4
  <2> QED
    BY <1>1, <2>2, <2>3 DEF KeyPressed
<1>2. ASSUME NEW p \in Procs, isr80h_command2_getkey(p) PROVE KInv'
  BY <1>2, PopStep DEF isr80h_command2_getkey, schedVars
<1>3. CASE Load
  <2> DEFINE p == S!process_get_free_slot
  <2>1. PICK task \in S!FreshCells : processes' = [processes EXCEPT ![p] = task]
    BY <1>3 DEF Load, S!BootLoad, S!process_load_start,
                S!invoke_system_command_inject_fails, S!process_load_switch
  <2>2. task \in Cells /\ process_init(p)
    BY <1>3 DEF Load, S!FreshCells
  <2> HIDE DEF p
  <2> QED
    BY <2>1, <2>2, LoadStep
<1>4. CASE Schedule
  <2>1. UNCHANGED kbVars
    BY <1>4 DEF Schedule
  <2>2. processes' = processes \/ \E p : processes' = [processes EXCEPT ![p] = NULL]
    <3>1. CASE S!process_terminate_current
      BY <3>1 DEF S!process_terminate_current, S!process_unlink
    <3>2. CASE ~S!process_terminate_current
      BY <1>4, <3>2 DEF Schedule, S!BootFails, S!task_run_first_ever_task, S!idt_clock,
                        S!idt_zero, S!load_map_fails, S!panic, S!NotFollowed, S!vars
    <3> QED
      BY <3>1, <3>2
  <2>3. /\ processes' \in [Procs -> Cells \cup {NULL}]
        /\ \A r \in Procs : processes'[r] # NULL => processes'[r] = processes[r]
    BY <2>2 DEF KInv
  <2> QED
    BY <2>1, <2>3 DEF kbVars, KInv, OwnKeysInOrder
<1>5. CASE UNCHANGED vars
  BY <1>5 DEF vars, schedVars, kbVars, KInv, OwnKeysInOrder
<1> QED
  BY <1>1, <1>2, <1>3, <1>4, <1>5 DEF Next

\* For every size of the ring, every number of slots and any order of loads and exits:
\* a loaded process that was not overrun finds in its ring exactly the keys typed for it
\* and not yet read, oldest first, and none of the process that had the slot before.
THEOREM KeysAreOwnInOrder == Spec => []OwnKeysInOrder
<1>1. Init => KInv
  <2> SUFFICES ASSUME Init PROVE KInv
    OBVIOUS
  <2>1. /\ keyboard = [p \in Procs |-> EmptyRing] /\ unread = [p \in Procs |-> <<>>]
        /\ lost = [p \in Procs |-> FALSE] /\ processes = [p \in Procs |-> NULL]
    BY DEF Init, KeyboardInit, S!Init
  <2>2. lost \in [Procs -> BOOLEAN]
    BY <2>1, Zenon
  <2> QED
    BY <2>1, <2>2, EmptyHolds DEF KInv, OwnKeysInOrder
<1>2. KInv /\ [Next]_vars => KInv'
  BY KInvStep
<1>3. KInv => OwnKeysInOrder
  BY DEF KInv
<1> QED
  BY <1>1, <1>2, <1>3, PTL DEF Spec
=============================================================================
