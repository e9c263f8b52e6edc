---------------------------- MODULE FilesProofs ----------------------------
(***************************************************************************)
(* Proofs about Files and Fat16, for every disk in which names are as the  *)
(* FAT format has them, every size of sector and cluster, and every path   *)
(* a caller passes: what a read returns, what a handle names, and why an   *)
(* open is refused.                                                        *)
(***************************************************************************)
EXTENDS Files, Induction, SequenceTheorems, FiniteSetTheorems

\* Of the sizes.
LEMMA DiskSizes ==
    /\ SectorSize \in Nat \ {0} /\ sectors_per_cluster \in Nat \ {0}
    /\ size_of_cluster_bytes \in Nat \ {0}
<1>1. SectorSize \in Nat \ {0} /\ sectors_per_cluster \in Nat \ {0}
  BY SizesAssumption
<1>2. \A a \in Nat \ {0}, b \in Nat \ {0} : a * b \in Nat \ {0}
  OBVIOUS
<1> QED
  BY <1>1, <1>2 DEF size_of_cluster_bytes

\* Bytes that follow each other.
LEMMA BytesFollow ==
    ASSUME NEW pos \in Nat, NEW a \in Nat, NEW b \in Nat
    PROVE  /\ Bytes(pos, a) \in Seq(Nat) /\ Len(Bytes(pos, a)) = a
           /\ Bytes(pos, a) \o Bytes(pos + a, b) = Bytes(pos, a + b)
<1>1. ASSUME NEW p \in Nat, NEW n \in Nat
      PROVE  Bytes(p, n) \in Seq(Nat) /\ Len(Bytes(p, n)) = n /\ \A i \in 1 .. n : Bytes(p, n)[i] = p + i - 1
  BY DEF Bytes
<1> DEFINE l == Bytes(pos, a)
           r == Bytes(pos + a, b)
           z == Bytes(pos, a + b)
<1>2. /\ l \in Seq(Nat) /\ Len(l) = a /\ \A i \in 1 .. a : l[i] = pos + i - 1
      /\ r \in Seq(Nat) /\ Len(r) = b /\ \A i \in 1 .. b : r[i] = pos + a + i - 1
      /\ z \in Seq(Nat) /\ Len(z) = a + b /\ \A i \in 1 .. a + b : z[i] = pos + i - 1
  <2>1. pos + a \in Nat /\ a + b \in Nat
    OBVIOUS
  <2> HIDE DEF l, r, z
  <2>2. l \in Seq(Nat) /\ Len(l) = a /\ \A i \in 1 .. a : l[i] = pos + i - 1
    BY <1>1 DEF l
  <2>3. r \in Seq(Nat) /\ Len(r) = b /\ \A i \in 1 .. b : r[i] = (pos + a) + i - 1
    BY <1>1, <2>1 DEF r
  <2>4. z \in Seq(Nat) /\ Len(z) = a + b /\ \A i \in 1 .. a + b : z[i] = pos + i - 1
    BY <1>1, <2>1 DEF z
  <2> QED
    BY <2>2, <2>3, <2>4
<1> HIDE DEF l, r, z
<1>3. l \in Seq(Nat) /\ r \in Seq(Nat) /\ z \in Seq(Nat) /\ Len(l) = a /\ Len(r) = b /\ Len(z) = a + b
  BY <1>2
<1>4. /\ l \o r \in Seq(Nat) /\ Len(l \o r) = Len(l) + Len(r)
       /\ \A i \in 1 .. Len(l) + Len(r) : (l \o r)[i] = IF i <= Len(l) THEN l[i] ELSE r[i - Len(l)]
  BY <1>3, ConcatProperties
<1>5. ASSUME NEW i \in 1 .. a + b PROVE (l \o r)[i] = z[i]
  <2>0. z[i] = pos + i - 1 /\ (l \o r)[i] = IF i <= a THEN l[i] ELSE r[i - a]
    BY <1>2, <1>3, <1>4
  <2>1. i <= a => l[i] = pos + i - 1
    BY <1>2
  <2>2. ~(i <= a) => i - a \in 1 .. b
    OBVIOUS
  <2>3. ~(i <= a) => r[i - a] = pos + a + (i - a) - 1
    BY <1>2, <2>2
  <2> QED
    BY <2>0, <2>1, <2>3
<1>6. l \o r = z
  BY <1>3, <1>4, <1>5, SeqEqual
<1> QED
  BY <1>2, <1>6 DEF l, r, z

\* For every position and length, aligned or not: the streamer returns the bytes from the
\* position on, no more, no less, however many sectors the request touches.
LEMMA StreamerExact ==
    ASSUME NEW pos \in Nat, NEW total \in Nat
    PROVE  diskstreamer_read(pos, total) = Bytes(pos, total)
<1> DEFINE D == 0 .. total
           here(n) == pos + (total - n)
           left(n) == SectorSize - (here(n) % SectorSize)
           R == {n \in D : (here(n) % SectorSize) + n >= SectorSize}
           S == Seq(Nat)
           mu == [n \in D |-> n]
           h == [n \in R |-> n - left(n)]
           g == [n \in R |-> [s \in S |-> Bytes(here(n), left(n)) \o s]]
           b == [n \in D |-> Bytes(here(n), n)]
           F(f) == [n \in D |-> IF (here(n) % SectorSize) + n >= SectorSize
                                THEN Bytes(here(n), left(n)) \o f[n - left(n)]
                                ELSE Bytes(here(n), n)]
           read == CHOOSE f : f = F(f)
<1>0. SectorSize \in Nat \ {0}
  BY DiskSizes
<1>1. \A n \in D : here(n) \in Nat /\ here(n) % SectorSize \in 0 .. SectorSize - 1
  BY <1>0
<1>2. \A n \in D : left(n) \in 1 .. SectorSize
  BY <1>0, <1>1
<1>3. \A n \in R : n - left(n) \in D /\ n - left(n) < n /\ left(n) <= n
  BY <1>0, <1>1, <1>2
<1> HIDE DEF here
<1>4. HasSolution(D, S, R, h, g, b)
  <2>1. mu \in [D -> 0 .. total] /\ R \subseteq D
    OBVIOUS
  <2>2. h \in [R -> D] /\ \A n \in R : mu[h[n]] < mu[n]
    BY <1>3
  <2>3. \A n \in D : Bytes(here(n), left(n)) \in S /\ Bytes(here(n), n) \in S
    <3> HIDE DEF left
    <3>1. \A n \in D : left(n) \in Nat /\ n \in Nat
      BY <1>2
    <3>2. \A p \in Nat, n \in Nat : Bytes(p, n) \in Seq(Nat)
      BY BytesFollow
    <3> QED
      BY <1>1, <3>1, <3>2
  <2>4. g \in [R -> [S -> S]]
    BY <2>3
  <2>5. b \in [D -> S]
    BY <2>3
  <2> HIDE DEF D, R, S, mu, h, g, b
  <2> QED
    BY <2>1, <2>2, <2>4, <2>5, Descent
<1>5. read = F(read)
  <2>1. PICK f \in [D -> S] : \A n \in D : f[n] = IF n \in R THEN g[n][f[h[n]]] ELSE b[n]
    BY <1>4 DEF HasSolution
  <2>2. \A n \in R : f[n] = Bytes(here(n), left(n)) \o f[n - left(n)]
    BY <1>3, <2>1
  <2>3. \A n \in D : n \notin R => f[n] = Bytes(here(n), n)
    BY <2>1
  <2>4. f = F(f)
    BY <2>1, <2>2, <2>3
  <2> HIDE DEF F
  <2> QED
    BY <2>4
<1>6. diskstreamer_read(pos, total) = read[total]
  BY Zenon DEF diskstreamer_read, here
<1> HIDE DEF read
<1>7. \A n \in D : n \in {k \in D : read[k] = Bytes(here(k), k)}
  <2> DEFINE P == {k \in D : read[k] = Bytes(here(k), k)}
  <2>1. ASSUME NEW n \in D, \A j \in 0 .. n - 1 : j \in P PROVE n \in P
    <3>1. CASE n \in R
      <4>1. read[n] = Bytes(here(n), left(n)) \o read[n - left(n)]
        BY <1>5, <3>1
      <4>2. read[n - left(n)] = Bytes(here(n - left(n)), n - left(n))
        BY <1>3, <2>1, <3>1
      <4>3. here(n - left(n)) = here(n) + left(n) /\ left(n) \in Nat /\ n - left(n) \in Nat
        BY <1>1, <1>2, <1>3, <3>1 DEF here
      <4>4. left(n) + (n - left(n)) = n
        BY <4>3
      <4> HIDE DEF left
      <4>5. Bytes(here(n), left(n)) \o Bytes(here(n) + left(n), n - left(n)) = Bytes(here(n), left(n) + (n - left(n)))
        <5>1. here(n) \in Nat
          BY <1>1 DEF here
        <5> HIDE DEF here
        <5> QED
          BY <4>3, <5>1, BytesFollow
      <4> QED
        BY <4>1, <4>2, <4>3, <4>4, <4>5
    <3>2. CASE n \notin R
      BY <1>5, <3>2
    <3> QED
      BY <3>1, <3>2
  <2> HIDE DEF P
  <2> QED
    BY <2>1, FromBelow DEF P
<1>8. read[total] = Bytes(here(total), total)
  BY <1>7
<1> QED
  BY <1>6, <1>8 DEF here

-----------------------------------------------------------------------------
\* An entry of the table, or a word of data.
LEMMA FatEntry ==
    ASSUME NEW c, NEW w \in Nat
    PROVE  fat16_get_fat_entry(c, w) \in Nat
<1>1. ASSUME NEW p PROVE WordAt(p, w) \in Nat
  <2> DEFINE start == reserved_sectors * SectorSize
             e == (p - start) \div 2
  <2>1. WordAt(p, w) = IF p >= start /\ e \in DOMAIN Fat THEN Fat[e] ELSE w
    BY DEF WordAt
  <2> HIDE DEF start, e
  <2>2. e \in DOMAIN Fat => Fat[e] \in Nat
    BY FatAssumption, SMT
  <2> QED
    BY <2>1, <2>2, Zenon
<1> QED
  BY <1>1 DEF fat16_get_fat_entry

\* The cluster of an offset: the first one for an offset in it; otherwise what the table
\* or the data say, or EIO.
LEMMA ClusterForOffset ==
    ASSUME NEW cluster \in Nat, NEW offset \in Nat, NEW w \in Nat
    PROVE  LET c == fat16_get_cluster_for_offset(cluster, offset, w)
           IN  c \in Nat \cup {EIO} /\ (offset < size_of_cluster_bytes => c = cluster)
<1> DEFINE k == offset \div size_of_cluster_bytes
           S == Nat \cup {EIO}
           next(s) == IF s = EIO \/ fat16_get_fat_entry(s, w) \in EndMarks THEN EIO
                      ELSE fat16_get_fat_entry(s, w)
           g == [i \in 1 .. k |-> [s \in S |-> next(s)]]
           F(f) == [i \in 0 .. k |-> IF i = 0 THEN cluster ELSE next(f[i - 1])]
           ahead == CHOOSE f : f = F(f)
<1>1. k \in Nat /\ (offset < size_of_cluster_bytes => k = 0)
  BY DiskSizes
<1> HIDE DEF k
<1>2. \A s \in S : next(s) \in S
  BY FatEntry
<1> HIDE DEF next, S
<1>3. Solvable(k, S, cluster, g)
  <2>1. g \in [1 .. k -> [S -> S]] /\ cluster \in S
    BY <1>2 DEF S
  <2> HIDE DEF g
  <2> QED
    BY <1>1, <2>1, Recursion
<1>4. ahead = F(ahead)
  <2>1. PICK f \in [0 .. k -> S] : f[0] = cluster /\ \A i \in 1 .. k : f[i] = g[i][f[i - 1]]
    BY <1>3 DEF Solvable
  <2>2. \A i \in 1 .. k : f[i] = next(f[i - 1])
    <3>1. \A i \in 1 .. k : f[i - 1] \in S
      BY <1>1
    <3> QED
      BY <2>1, <3>1
  <2>3. f = F(f)
    BY <1>1, <2>1, <2>2
  <2> HIDE DEF F
  <2> QED
    BY <2>3
<1>5. fat16_get_cluster_for_offset(cluster, offset, w) = ahead[k]
  BY Zenon DEF fat16_get_cluster_for_offset, next, k
<1> HIDE DEF ahead
<1>6. ahead[0] = cluster /\ \A i \in 1 .. k : ahead[i] = next(ahead[i - 1])
  BY <1>1, <1>4
<1>7. \A i \in 0 .. k : ahead[i] \in S
  <2>1. ahead[0] \in S /\ \A i \in 1 .. k : ahead[i - 1] \in S => ahead[i] \in S
    BY <1>2, <1>6 DEF S
  <2> QED
    BY <1>1, <2>1, StaysIn
<1>8. ahead[k] \in S /\ (offset < size_of_cluster_bytes => ahead[k] = cluster)
  BY <1>1, <1>6, <1>7
<1> QED
  BY <1>5, <1>8, Zenon DEF S

\* Where a cluster starts.
StartOf(cluster) == fat16_cluster_to_sector(cluster) * SectorSize

\* The data of every cluster starts on the disk, that of the entries without one too.
LEMMA StartsOnDisk ==
    ASSUME NEW c \in Nat
    PROVE  StartOf(c) \in Nat
<1>1. /\ sectors_per_cluster \in Nat /\ SectorSize \in Nat
      /\ 2 * sectors_per_cluster <= ending_sector_pos
  BY DiskSizes, ClustersAssumption
<1>2. ending_sector_pos \in Int
  <2>1. /\ {SectorSize, reserved_sectors, ItemSize} \subseteq Nat \ {0}
        /\ {fat_copies, sectors_per_fat, root_dir_entries} \subseteq Nat
    BY SizesAssumption
  <2>2. \A a \in Nat, b \in Nat : a * b \in Nat
    OBVIOUS
  <2>3. (root_dir_entries * ItemSize) \div SectorSize \in Int
    BY <2>1, <2>2
  <2>4. root_dir_sector_pos \in Int
    BY <2>1, <2>2 DEF root_dir_sector_pos
  <2> QED
    BY <2>3, <2>4 DEF ending_sector_pos
<1>3. ending_sector_pos + (c - 2) * sectors_per_cluster \in Nat
  <2> DEFINE x == c * sectors_per_cluster
  <2>1. x \in Nat /\ (c - 2) * sectors_per_cluster = x - 2 * sectors_per_cluster
    BY <1>1
  <2> HIDE DEF x
  <2> QED
    BY <1>1, <1>2, <2>1
<1>4. \A a \in Nat, b \in Nat : a * b \in Nat
  OBVIOUS
<1> QED
  BY <1>1, <1>3, <1>4 DEF StartOf, fat16_cluster_to_sector

-----------------------------------------------------------------------------
\* r is a read of n bytes at offset o of the file that starts with cluster: whole unless it
\* failed, which it does only behind the first cluster, and right as far as that one goes.
FromFile(r, cluster, o, n) ==
    /\ r \in [ok : BOOLEAN, bytes : Seq(Nat)]
    /\ r.ok => Len(r.bytes) = n
    /\ ~r.ok => o + Len(r.bytes) >= size_of_cluster_bytes
    /\ \A k \in 1 .. Len(r.bytes) :
         o + k <= size_of_cluster_bytes => r.bytes[k] = StartOf(cluster) + o + k - 1

\* Reads that follow each other make one.
LEMMA ReadsJoin ==
    ASSUME NEW cluster \in Nat, NEW o \in Nat, NEW m \in Nat, NEW n \in Nat, NEW x, NEW y,
           FromFile(x, cluster, o, m), x.ok, FromFile(y, cluster, o + m, n)
    PROVE  FromFile([ok |-> y.ok, bytes |-> x.bytes \o y.bytes], cluster, o, m + n)
<1> DEFINE l == x.bytes
           r == y.bytes
           z == [ok |-> y.ok, bytes |-> l \o r]
           st == StartOf(cluster)
           cb == size_of_cluster_bytes
<1>1. st \in Nat /\ cb \in Nat
  BY StartsOnDisk, DiskSizes
<1>2. /\ l \in Seq(Nat) /\ r \in Seq(Nat) /\ y.ok \in BOOLEAN /\ Len(l) = m
      /\ y.ok => Len(r) = n
      /\ ~y.ok => (o + m) + Len(r) >= cb
      /\ \A k \in 1 .. Len(l) : o + k <= cb => l[k] = st + o + k - 1
      /\ \A k \in 1 .. Len(r) : (o + m) + k <= cb => r[k] = st + (o + m) + k - 1
  BY DEF FromFile
<1> HIDE DEF l, r, st, cb
<1>3. l \in Seq(Nat) /\ r \in Seq(Nat) /\ Len(l) = m /\ Len(r) \in Nat
  BY <1>2
<1>4. /\ l \o r \in Seq(Nat) /\ Len(l \o r) = Len(l) + Len(r)
      /\ \A i \in 1 .. Len(l) + Len(r) : (l \o r)[i] = IF i <= Len(l) THEN l[i] ELSE r[i - Len(l)]
  BY <1>3, ConcatProperties
<1>5. ASSUME NEW k \in 1 .. Len(l \o r), o + k <= cb PROVE (l \o r)[k] = st + o + k - 1
  <2>0. (l \o r)[k] = IF k <= m THEN l[k] ELSE r[k - m]
    BY <1>3, <1>4
  <2>1. CASE k <= m
    BY <1>2, <1>5, <2>0, <2>1
  <2>2. CASE ~(k <= m)
    <3>1. k - m \in 1 .. Len(r) /\ (o + m) + (k - m) <= cb /\ st + (o + m) + (k - m) - 1 = st + o + k - 1
      BY <1>1, <1>3, <1>4, <1>5, <2>2
    <3>2. r[k - m] = st + (o + m) + (k - m) - 1
      BY <1>2, <3>1
    <3> QED
      BY <2>0, <2>2, <3>1, <3>2
  <2> QED
    BY <2>1, <2>2
<1>6. y.ok => Len(l \o r) = m + n
  BY <1>2, <1>3, <1>4
<1>7. ~y.ok => o + Len(l \o r) >= cb
  BY <1>1, <1>2, <1>3, <1>4
<1>8. z \in [ok : BOOLEAN, bytes : Seq(Nat)] /\ z.ok = y.ok /\ z.bytes = l \o r
  BY <1>2, <1>4
<1> HIDE DEF z
<1>9. FromFile(z, cluster, o, m + n)
  BY <1>5, <1>6, <1>7, <1>8 DEF FromFile, st, cb
<1> QED
  BY <1>9 DEF z, l, r

\* A read inside a cluster.
LEMMA PieceExact ==
    ASSUME NEW cluster \in Nat, NEW o \in Nat, NEW n \in Nat, NEW c \in Nat,
           n <= size_of_cluster_bytes, o < size_of_cluster_bytes => c = cluster
    PROVE  FromFile([ok |-> TRUE,
                     bytes |-> diskstreamer_read(StartOf(c) + (o % size_of_cluster_bytes), n)],
                    cluster, o, n)
<1> DEFINE cb == size_of_cluster_bytes
           p == StartOf(c) + (o % cb)
           z == [ok |-> TRUE, bytes |-> Bytes(p, n)]
<1>1. cb \in Nat \ {0} /\ StartOf(c) \in Nat
  BY DiskSizes, StartsOnDisk
<1>2. o % cb \in Nat /\ (o < cb => o % cb = o)
  BY <1>1
<1>3. p \in Nat
  BY <1>1, <1>2
<1>4. diskstreamer_read(p, n) = Bytes(p, n)
  <2> HIDE DEF p
  <2> QED
    BY <1>3, StreamerExact
<1>5. Bytes(p, n) \in Seq(Nat) /\ Len(Bytes(p, n)) = n
  <2> HIDE DEF p
  <2> QED
    BY <1>3, BytesFollow
<1>6. ASSUME NEW k \in 1 .. n, o + k <= cb PROVE Bytes(p, n)[k] = StartOf(cluster) + o + k - 1
  <2>1. o < cb /\ c = cluster
    BY <1>1, <1>6 DEF cb
  <2>2. p = StartOf(cluster) + o
    BY <1>2, <2>1
  <2>3. Bytes(p, n)[k] = p + k - 1
    BY DEF Bytes
  <2> QED
    BY <2>2, <2>3
<1>7. z \in [ok : BOOLEAN, bytes : Seq(Nat)] /\ z.ok /\ z.bytes = Bytes(p, n)
  BY <1>5
<1> HIDE DEF z, p
<1>8. FromFile(z, cluster, o, n)
  BY <1>5, <1>6, <1>7 DEF FromFile, cb
<1> QED
  BY <1>4, <1>8 DEF z, p, cb

\* fat16_read_internal, for every cluster, offset, size and data.
LEMMA InternalExact ==
    ASSUME NEW cluster \in Nat, NEW offset \in Nat, NEW size \in Nat, NEW w \in Nat
    PROVE  FromFile(fat16_read_internal(cluster, offset, size, w), cluster, offset, size)
<1> DEFINE D == 0 .. size
           cb == size_of_cluster_bytes
           o(n) == offset + (size - n)
           c(n) == fat16_get_cluster_for_offset(cluster, o(n), w)
           take(n) == IF n > cb THEN cb ELSE n
           B(n) == diskstreamer_read(StartOf(c(n)) + (o(n) % cb), take(n))
           S == [ok : BOOLEAN, bytes : Seq(Nat)]
           R == {n \in D : c(n) # EIO /\ n # take(n)}
           fails == [ok |-> FALSE, bytes |-> <<>>]
           join(n, s) == [ok |-> s.ok, bytes |-> B(n) \o s.bytes]
           mu == [n \in D |-> n]
           h == [n \in R |-> n - take(n)]
           g == [n \in R |-> [s \in S |-> join(n, s)]]
           b == [n \in D |-> IF c(n) = EIO THEN fails ELSE [ok |-> TRUE, bytes |-> B(n)]]
           F(f) == [n \in D |-> IF c(n) = EIO THEN fails
                                ELSE IF n = take(n) THEN [ok |-> TRUE, bytes |-> B(n)]
                                ELSE join(n, f[n - take(n)])]
           read == CHOOSE f : f = F(f)
<1>0. cb \in Nat \ {0}
  BY DiskSizes
<1>1. \A n \in D : o(n) \in Nat /\ take(n) \in Nat /\ take(n) <= cb
  BY <1>0
<1>2. \A n \in D : c(n) \in Nat \cup {EIO} /\ (o(n) < cb => c(n) = cluster)
  <2> HIDE DEF o
  <2> QED
    BY <1>1, ClusterForOffset
<1>3. \A n \in R : n - take(n) \in D /\ n - take(n) < n /\ take(n) = cb /\ n = cb + (n - cb) /\ n - cb \in Nat
  <2> HIDE DEF c
  <2> QED
    BY <1>0, <1>1
<1>4. \A n \in R : o(n - cb) = o(n) + cb
  <2> HIDE DEF c
  <2> QED
    BY <1>0, <1>1, <1>3
<1> HIDE DEF c, o, take
<1>5. \A n \in D : c(n) # EIO => FromFile([ok |-> TRUE, bytes |-> B(n)], cluster, o(n), take(n))
  <2> SUFFICES ASSUME NEW n \in D, c(n) # EIO
               PROVE  FromFile([ok |-> TRUE, bytes |-> B(n)], cluster, o(n), take(n))
    OBVIOUS
  <2>1. c(n) \in Nat /\ (o(n) < cb => c(n) = cluster) /\ o(n) \in Nat /\ take(n) \in Nat /\ take(n) <= cb
    BY <1>1, <1>2
  <2> QED
    BY <2>1, PieceExact
<1>6. \A n \in D : c(n) # EIO => B(n) \in Seq(Nat)
  <2> SUFFICES ASSUME NEW n \in D, c(n) # EIO PROVE B(n) \in Seq(Nat)
    OBVIOUS
  <2>1. FromFile([ok |-> TRUE, bytes |-> B(n)], cluster, o(n), take(n))
    BY <1>5
  <2> HIDE DEF B
  <2> QED
    BY <2>1 DEF FromFile
<1> HIDE DEF B
<1>7. fails \in S
  OBVIOUS
<1>8. \A n \in D : c(n) # EIO => [ok |-> TRUE, bytes |-> B(n)] \in S
  BY <1>6
<1>9. \A n \in R, s \in S : join(n, s) \in S
  <2> SUFFICES ASSUME NEW n \in R, NEW s \in S PROVE join(n, s) \in S
    OBVIOUS
  <2>1. B(n) \in Seq(Nat) /\ s.bytes \in Seq(Nat) /\ s.ok \in BOOLEAN
    BY <1>6
  <2>2. B(n) \o s.bytes \in Seq(Nat)
    BY <2>1, ConcatProperties
  <2> QED
    BY <2>1, <2>2
<1> HIDE DEF join, fails, S
<1>10. HasSolution(D, S, R, h, g, b)
  <2>1. mu \in [D -> 0 .. size] /\ R \subseteq D
    OBVIOUS
  <2>2. h \in [R -> D] /\ \A n \in R : mu[h[n]] < mu[n]
    BY <1>3
  <2>3. g \in [R -> [S -> S]]
    BY <1>9
  <2>4. b \in [D -> S]
    BY <1>7, <1>8
  <2> HIDE DEF D, R, mu, h, g, b
  <2> QED
    BY <2>1, <2>2, <2>3, <2>4, Descent
<1>11. read = F(read)
  <2>1. PICK f \in [D -> S] : \A n \in D : f[n] = IF n \in R THEN g[n][f[h[n]]] ELSE b[n]
    BY <1>10 DEF HasSolution
  <2>2. \A n \in R : f[n] = join(n, f[n - take(n)])
    BY <1>3, <2>1
  <2>3. \A n \in D : n \notin R => f[n] = IF c(n) = EIO THEN fails ELSE [ok |-> TRUE, bytes |-> B(n)]
    BY <2>1
  <2>4. f = F(f)
    BY <2>1, <2>2, <2>3
  <2> HIDE DEF F
  <2> QED
    BY <2>4
<1>12. fat16_read_internal(cluster, offset, size, w) = read[size]
  BY Zenon DEF fat16_read_internal, c, o, take, B, join, fails, StartOf
<1> HIDE DEF read
<1>13. /\ \A n \in D : c(n) = EIO => read[n] = fails
       /\ \A n \in D : c(n) # EIO /\ n = take(n) => read[n] = [ok |-> TRUE, bytes |-> B(n)]
       /\ \A n \in R : read[n] = join(n, read[n - take(n)])
  BY <1>11
<1>14. \A n \in D : n \in {k \in D : FromFile(read[k], cluster, o(k), k)}
  <2> DEFINE P == {k \in D : FromFile(read[k], cluster, o(k), k)}
  <2>1. ASSUME NEW n \in D, \A j \in 0 .. n - 1 : j \in P PROVE n \in P
    <3>1. CASE c(n) = EIO
      <4>1. o(n) \in Nat /\ cb \in Nat /\ o(n) >= cb
        <5>1. cluster # EIO
          BY DEF EIO
        <5> QED
          BY <1>0, <1>1, <1>2, <3>1, <5>1
      <4>2. fails \in [ok : BOOLEAN, bytes : Seq(Nat)] /\ ~fails.ok /\ fails.bytes = <<>>
        BY DEF fails
      <4>3. FromFile(fails, cluster, o(n), n)
        BY <4>1, <4>2 DEF FromFile
      <4> QED
        BY <1>13, <3>1, <4>3
    <3>2. CASE c(n) # EIO /\ n = take(n)
      BY <1>5, <1>13, <3>2
    <3>3. CASE n \in R
      <4>1. read[n] = join(n, read[n - cb]) /\ n - cb \in Nat /\ n - cb < n /\ n = cb + (n - cb)
        BY <1>3, <1>13, <3>3
      <4>2. FromFile(read[n - cb], cluster, o(n) + cb, n - cb)
        <5>1. n - cb \in 0 .. n - 1
          BY <1>0, <4>1
        <5> QED
          BY <1>4, <2>1, <3>3, <5>1
      <4>3. FromFile([ok |-> TRUE, bytes |-> B(n)], cluster, o(n), cb)
        BY <1>3, <1>5, <3>3
      <4> DEFINE x == [ok |-> TRUE, bytes |-> B(n)]
                 y == read[n - cb]
      <4>4. x.ok /\ x.bytes = B(n)
        OBVIOUS
      <4>5. FromFile(x, cluster, o(n), cb) /\ FromFile(y, cluster, o(n) + cb, n - cb) /\ o(n) \in Nat /\ cb \in Nat
        BY <1>0, <1>1, <4>2, <4>3
      <4> HIDE DEF x, y, cb
      <4>6. FromFile([ok |-> y.ok, bytes |-> x.bytes \o y.bytes], cluster, o(n), cb + (n - cb))
        BY <4>1, <4>4, <4>5, ReadsJoin
      <4>7. read[n] = [ok |-> y.ok, bytes |-> x.bytes \o y.bytes]
        BY <4>1, <4>4 DEF join, y
      <4> QED
        BY <4>1, <4>6, <4>7
    <3> QED
      BY <3>1, <3>2, <3>3
  <2> HIDE DEF P
  <2> QED
    BY <2>1, FromBelow DEF P
<1>15. FromFile(read[size], cluster, o(size), size) /\ o(size) = offset
  BY <1>14 DEF o
<1> QED
  BY <1>12, <1>15

\* fat16_read, for any number of members: all of them, or it failed behind the first cluster.
LEMMA ReadExact ==
    ASSUME NEW cluster \in Nat, NEW pos \in Nat, NEW size \in Nat, NEW nmemb \in Nat, NEW w \in Nat
    PROVE  FromFile(fat16_read(cluster, pos, size, nmemb, w), cluster, pos, nmemb * size)
<1> DEFINE S == [ok : BOOLEAN, bytes : Seq(Nat)]
           this(n) == fat16_read_internal(cluster, pos + (n - 1) * size, size, w)
           none == [ok |-> TRUE, bytes |-> <<>>]
           add(n, s) == IF s.ok THEN [ok |-> this(n).ok, bytes |-> s.bytes \o this(n).bytes] ELSE s
           g == [n \in 1 .. nmemb |-> [s \in S |-> add(n, s)]]
           F(f) == [n \in 0 .. nmemb |-> IF n = 0 THEN none ELSE add(n, f[n - 1])]
           members == CHOOSE f : f = F(f)
<1>1. \A n \in Nat \ {0} : (n - 1) * size \in Nat /\ n * size = (n - 1) * size + size
  OBVIOUS
<1>2. \A n \in 1 .. nmemb : FromFile(this(n), cluster, pos + (n - 1) * size, size)
  <2> SUFFICES ASSUME NEW n \in 1 .. nmemb
               PROVE  FromFile(this(n), cluster, pos + (n - 1) * size, size)
    OBVIOUS
  <2> DEFINE at == pos + (n - 1) * size
  <2>1. at \in Nat
    BY <1>1
  <2> HIDE DEF at
  <2>2. FromFile(fat16_read_internal(cluster, at, size, w), cluster, at, size)
    BY <2>1, InternalExact
  <2> QED
    BY <2>2 DEF at
<1> HIDE DEF this
<1>3. none \in S /\ FromFile(none, cluster, pos, 0 * size)
  <2>1. none \in [ok : BOOLEAN, bytes : Seq(Nat)] /\ none.ok /\ none.bytes = <<>> /\ 0 * size = 0
    OBVIOUS
  <2> QED
    BY <2>1 DEF FromFile
<1>4. \A n \in 1 .. nmemb, s \in S : add(n, s) \in S
  <2> SUFFICES ASSUME NEW n \in 1 .. nmemb, NEW s \in S PROVE add(n, s) \in S
    OBVIOUS
  <2>1. this(n).bytes \in Seq(Nat) /\ this(n).ok \in BOOLEAN /\ s.bytes \in Seq(Nat)
    BY <1>2 DEF FromFile
  <2>2. s.bytes \o this(n).bytes \in Seq(Nat)
    BY <2>1, ConcatProperties
  <2> QED
    BY <2>1, <2>2
<1> HIDE DEF none, S
<1>5. Solvable(nmemb, S, none, g)
  <2> HIDE DEF add
  <2>1. g \in [1 .. nmemb -> [S -> S]] /\ none \in S
    BY <1>3, <1>4
  <2> HIDE DEF g
  <2> QED
    BY <2>1, Recursion
<1>6. members = F(members)
  <2> HIDE DEF add
  <2>1. PICK f \in [0 .. nmemb -> S] : f[0] = none /\ \A i \in 1 .. nmemb : f[i] = g[i][f[i - 1]]
    BY <1>5 DEF Solvable
  <2>2. \A i \in 1 .. nmemb : f[i - 1] \in S
    OBVIOUS
  <2>3. \A i \in 1 .. nmemb : f[i] = add(i, f[i - 1])
    BY <2>1, <2>2
  <2>4. f = F(f)
    BY <2>1, <2>3
  <2> HIDE DEF F
  <2> QED
    BY <2>4
<1>7. fat16_read(cluster, pos, size, nmemb, w) = members[nmemb]
  BY Zenon DEF fat16_read, none, this
<1> HIDE DEF members
<1>8. members[0] = none /\ \A n \in 1 .. nmemb : members[n] = add(n, members[n - 1])
  <2> HIDE DEF add
  <2> QED
    BY <1>6
<1>9. \A n \in 0 .. nmemb : n \in {k \in 0 .. nmemb : FromFile(members[k], cluster, pos, k * size)}
  <2> DEFINE P == {k \in 0 .. nmemb : FromFile(members[k], cluster, pos, k * size)}
  <2>1. 0 \in P
    BY <1>3, <1>8
  <2>2. ASSUME NEW n \in 1 .. nmemb, n - 1 \in P PROVE n \in P
    <3> DEFINE x == members[n - 1]
               y == this(n)
               m == (n - 1) * size
    <3>1. FromFile(x, cluster, pos, m) /\ FromFile(y, cluster, pos + m, size) /\ m \in Nat
      BY <1>1, <1>2, <2>2
    <3>2. n * size = m + size
      BY <1>1
    <3>3. members[n] = IF x.ok THEN [ok |-> y.ok, bytes |-> x.bytes \o y.bytes] ELSE x
      BY <1>8
    <3> HIDE DEF m, x, y
    <3>4. CASE x.ok
      <4>1. FromFile([ok |-> y.ok, bytes |-> x.bytes \o y.bytes], cluster, pos, m + size)
        BY <3>1, <3>4, ReadsJoin
      <4> QED
        BY <3>2, <3>3, <3>4, <4>1
    <3>5. CASE ~x.ok
      <4>1. FromFile(x, cluster, pos, n * size)
        BY <3>1, <3>5 DEF FromFile
      <4> QED
        BY <3>3, <3>5, <4>1
    <3> QED
      BY <3>4, <3>5
  <2> HIDE DEF P
  <2>3. \A n \in 0 .. nmemb : n \in P
    BY <2>1, <2>2, UpTo
  <2> QED
    BY <2>3 DEF P
<1>10. FromFile(members[nmemb], cluster, pos, nmemb * size)
  BY <1>9
<1> QED
  BY <1>7, <1>10

-----------------------------------------------------------------------------
Chars == 0 .. 255

\* Where the part that starts at i ends.
EndOf(path, i) ==
    CHOOSE j \in i .. Len(path) + 1 :
        /\ j = Len(path) + 1 \/ path[j] = Slash
        /\ \A k \in i .. j - 1 : path[k] # Slash

\* There is such an end.
LEMMA PartEnds ==
    ASSUME NEW path \in Seq(Chars), NEW i \in 1 .. Len(path) + 1
    PROVE  /\ EndOf(path, i) \in i .. Len(path) + 1
           /\ EndOf(path, i) = Len(path) + 1 \/ path[EndOf(path, i)] = Slash
           /\ \A k \in i .. EndOf(path, i) - 1 : path[k] # Slash
<1> DEFINE T == {j \in i .. Len(path) + 1 : j = Len(path) + 1 \/ path[j] = Slash}
<1>0. Len(path) \in Nat
  OBVIOUS
<1>1. T \subseteq Nat /\ T # {}
  BY <1>0
<1>2. PICK x \in T : \A y \in T : x <= y
  <2> HIDE DEF T
  <2> QED
    BY <1>1, LeastOf
<1>3. \A k \in i .. x - 1 : path[k] # Slash
  <2> SUFFICES ASSUME NEW k \in i .. x - 1, path[k] = Slash PROVE FALSE
    OBVIOUS
  <2>1. k \in T
    BY <1>0, <1>2
  <2> QED
    BY <1>0, <1>2, <2>1
<1>4. /\ x \in i .. Len(path) + 1 /\ (x = Len(path) + 1 \/ path[x] = Slash)
      /\ \A k \in i .. x - 1 : path[k] # Slash
  BY <1>2, <1>3
<1> QED
  BY <1>4, Zenon DEF EndOf

\* The end is the only one.
LEMMA PartEndsAt ==
    ASSUME NEW path \in Seq(Chars), NEW i \in 1 .. Len(path) + 1, NEW j \in i .. Len(path) + 1,
           j = Len(path) + 1 \/ path[j] = Slash, \A k \in i .. j - 1 : path[k] # Slash
    PROVE  EndOf(path, i) = j
<1> DEFINE e == EndOf(path, i)
<1>1. /\ e \in i .. Len(path) + 1 /\ (e = Len(path) + 1 \/ path[e] = Slash)
      /\ \A k \in i .. e - 1 : path[k] # Slash
  BY PartEnds
<1>2. Len(path) \in Nat
  OBVIOUS
<1> HIDE DEF e
<1>3. ~(e < j)
  <2> SUFFICES ASSUME e < j PROVE FALSE
    OBVIOUS
  <2>1. e \in i .. j - 1 /\ e # Len(path) + 1
    BY <1>1, <1>2
  <2> QED
    BY <1>1, <2>1
<1>4. ~(j < e)
  <2> SUFFICES ASSUME j < e PROVE FALSE
    OBVIOUS
  <2>1. j \in i .. e - 1 /\ j # Len(path) + 1
    BY <1>1, <1>2
  <2> QED
    BY <1>1, <2>1
<1> QED
  BY <1>1, <1>2, <1>3, <1>4 DEF e

\* f holds, for each position, the parts of the path from there on.
PartsOf(f, path) ==
    /\ f \in [1 .. Len(path) + 1 -> Seq(Seq(Chars))]
    /\ \A i \in 1 .. Len(path) + 1 :
         LET part == SubSeq(path, i, EndOf(path, i) - 1)
         IN  f[i] = IF part = <<>> THEN <<>>
                    ELSE <<part>> \o (IF EndOf(path, i) <= Len(path) THEN f[EndOf(path, i) + 1] ELSE <<>>)

\* The recursion of pathparser_parse_path_part ends.
LEMMA PathParts ==
    ASSUME NEW path \in Seq(Chars), Len(path) >= 3
    PROVE  \E f : PartsOf(f, path) /\ pathparser_parse_path_part(path) = f[4]
<1> DEFINE D == 1 .. Len(path) + 1
           S == Seq(Seq(Chars))
           end(i) == EndOf(path, i)
           part(i) == SubSeq(path, i, end(i) - 1)
           R == {i \in D : part(i) # <<>> /\ end(i) <= Len(path)}
           mu == [i \in D |-> Len(path) + 1 - i]
           h == [i \in R |-> end(i) + 1]
           g == [i \in R |-> [s \in S |-> <<part(i)>> \o s]]
           b == [i \in D |-> IF part(i) = <<>> THEN <<>> ELSE <<part(i)>> \o <<>>]
           F(f) == [i \in D |-> IF part(i) = <<>> THEN <<>>
                                ELSE <<part(i)>> \o (IF end(i) <= Len(path) THEN f[end(i) + 1] ELSE <<>>)]
           parts == CHOOSE f : f = F(f)
<1>1. Len(path) \in Nat
  OBVIOUS
<1>2. \A i \in D : end(i) \in i .. Len(path) + 1
  BY PartEnds
<1>3. \A i \in D : part(i) \in Seq(Chars)
  <2> SUFFICES ASSUME NEW i \in D PROVE part(i) \in Seq(Chars)
    OBVIOUS
  <2>1. i \in 1 .. Len(path) + 1 /\ end(i) - 1 \in i - 1 .. Len(path)
    BY <1>1, <1>2
  <2> HIDE DEF end
  <2> QED
    BY <2>1, SubSeqProperties
<1>4. \A i \in R : end(i) \in Nat /\ end(i) + 1 \in D /\ end(i) >= i
  BY <1>1, <1>2, SMTT(30)
<1> HIDE DEF end, part
<1>5. \A i \in D : <<part(i)>> \in S
  BY <1>3
<1>6. \A i \in D, s \in S : <<part(i)>> \o s \in S
  <2> SUFFICES ASSUME NEW i \in D, NEW s \in S PROVE <<part(i)>> \o s \in S
    OBVIOUS
  <2> QED
    BY <1>5, ConcatProperties
<1>7. HasSolution(D, S, R, h, g, b)
  <2>1. mu \in [D -> 0 .. Len(path)] /\ R \subseteq D
    BY <1>1
  <2>2. h \in [R -> D] /\ \A i \in R : mu[h[i]] < mu[i]
    <3>1. h \in [R -> D]
      BY <1>4
    <3>2. ASSUME NEW i \in R PROVE mu[h[i]] < mu[i]
      <4>1. h[i] = end(i) + 1 /\ end(i) \in Nat /\ end(i) + 1 \in D /\ end(i) >= i /\ i \in D
        BY <1>4
      <4>2. mu[h[i]] = Len(path) + 1 - (end(i) + 1) /\ mu[i] = Len(path) + 1 - i
        BY <4>1
      <4> QED
        BY <1>1, <4>1, <4>2
    <3> QED
      BY <3>1, <3>2
  <2>3. g \in [R -> [S -> S]]
    BY <1>6
  <2>4. b \in [D -> S]
    <3>1. <<>> \in S
      OBVIOUS
    <3> HIDE DEF S
    <3> QED
      BY <1>6, <3>1
  <2> HIDE DEF D, S, R, mu, h, g, b
  <2> QED
    BY <1>1, <2>1, <2>2, <2>3, <2>4, Descent
<1>8. PICK f \in [D -> S] : \A i \in D : f[i] = IF i \in R THEN g[i][f[h[i]]] ELSE b[i]
  BY <1>7 DEF HasSolution
<1>9. \A i \in R : f[i] = <<part(i)>> \o f[end(i) + 1]
  <2> HIDE DEF S
  <2> QED
    BY <1>4, <1>8
<1>10. \A i \in D : i \notin R => f[i] = IF part(i) = <<>> THEN <<>> ELSE <<part(i)>> \o <<>>
  <2> HIDE DEF S
  <2> QED
    BY <1>8
<1> HIDE DEF S
<1>11. f = F(f)
  BY <1>8, <1>9, <1>10
<1>12. parts = F(parts)
  <2> HIDE DEF F
  <2> QED
    BY <1>11
<1>13. pathparser_parse_path_part(path) = parts[4]
  BY Zenon DEF pathparser_parse_path_part, EndOf, end, part
<1> HIDE DEF parts
<1>14. DOMAIN parts = D /\ \A i \in D : parts[i] = IF part(i) = <<>> THEN <<>>
                  ELSE <<part(i)>> \o (IF end(i) <= Len(path) THEN parts[end(i) + 1] ELSE <<>>)
  BY <1>12
<1> DEFINE P == {k \in 0 .. Len(path) : parts[Len(path) + 1 - k] \in S}
<1>15. ASSUME NEW k \in 0 .. Len(path), \A j \in 0 .. k - 1 : j \in P PROVE k \in P
  <2> DEFINE i == Len(path) + 1 - k
  <2>1. i \in D /\ k = Len(path) + 1 - i
    BY <1>1
  <2> HIDE DEF i
  <2>2. CASE i \in R
    <3>1. end(i) + 1 \in D /\ Len(path) + 1 - (end(i) + 1) \in 0 .. k - 1
          /\ Len(path) + 1 - (Len(path) + 1 - (end(i) + 1)) = end(i) + 1
      BY <1>1, <1>4, <2>1, <2>2
    <3>2. parts[end(i) + 1] \in S
      BY <1>15, <3>1
    <3>3. parts[i] = <<part(i)>> \o parts[end(i) + 1]
      BY <1>14, <2>2
    <3>4. parts[i] \in S
      BY <1>6, <2>1, <3>2, <3>3
    <3> QED
      BY <3>4 DEF i
  <2>3. CASE i \notin R
    <3>1. <<>> \in S
      BY DEF S
    <3>2. parts[i] = IF part(i) = <<>> THEN <<>> ELSE <<part(i)>> \o <<>>
      BY <1>14, <2>1, <2>3
    <3>3. parts[i] \in S
      BY <1>6, <2>1, <3>1, <3>2
    <3> QED
      BY <3>3 DEF i
  <2> QED
    BY <2>2, <2>3
<1>16. \A i \in D : parts[i] \in S
  <2>1. \A k \in 0 .. Len(path) : k \in P
    <3> HIDE DEF P
    <3> QED
      BY <1>1, <1>15, FromBelow
  <2>2. \A i \in D : Len(path) + 1 - i \in 0 .. Len(path) /\ Len(path) + 1 - (Len(path) + 1 - i) = i
    BY <1>1
  <2> QED
    BY <2>1, <2>2
<1>17. parts \in [1 .. Len(path) + 1 -> Seq(Seq(Chars))]
  <2>1. parts = [i \in D |-> parts[i]]
    BY <1>12
  <2> QED
    BY <1>16, <2>1 DEF S
<1>18. PartsOf(parts, path)
  BY <1>14, <1>17, Zenon DEF PartsOf, end, part
<1> QED
  BY <1>13, <1>18

\* The parts of a path are strings.
LEMMA ParsedType ==
    ASSUME NEW path \in Seq(Chars)
    PROVE  pathparser_parse(path) \in Seq(Seq(Chars))
<1>1. CASE Len(path) > MAEROS_MAX_PATH \/ ~pathparser_path_valid_format(path)
  BY <1>1 DEF pathparser_parse
<1>2. CASE ~(Len(path) > MAEROS_MAX_PATH \/ ~pathparser_path_valid_format(path))
  <2>1. Len(path) >= 3 /\ pathparser_parse(path) = pathparser_parse_path_part(path)
    BY <1>2 DEF pathparser_parse, pathparser_path_valid_format
  <2>2. PICK f : PartsOf(f, path) /\ pathparser_parse_path_part(path) = f[4]
    BY <2>1, PathParts
  <2>3. f \in [1 .. Len(path) + 1 -> Seq(Seq(Chars))]
    BY <2>2, Zenon DEF PartsOf
  <2> QED
    BY <2>1, <2>2, <2>3
<1> QED
  BY <1>1, <1>2

-----------------------------------------------------------------------------
Directories == {Root} \cup {Subdirs[c] : c \in DOMAIN Subdirs}

\* The entries of directories.
Items == {e \in fat_directory_item : e.kind = "dir" => e.cluster \in DOMAIN Subdirs}

\* A directory has no more entries in use than entries.
LEMMA TotalItems ==
    ASSUME NEW dir \in Directories
    PROVE  /\ dir \in Seq(fat_directory_item)
           /\ fat16_get_total_items_for_directory(dir) \in 0 .. Len(dir)
           /\ \A i \in 1 .. Len(dir) : dir[i] \in Items
<1>1. dir \in Seq(fat_directory_item)
  BY DirectoriesAssumption DEF Directories
<1>2. \A i \in 1 .. Len(dir) : dir[i].kind = "dir" => dir[i].cluster \in DOMAIN Subdirs
  BY DirectoriesAssumption DEF Directories
<1>3. \A i \in 1 .. Len(dir) : dir[i] \in fat_directory_item
  <2> HIDE DEF fat_directory_item
  <2> QED
    BY <1>1
<1>4. Len(dir) \in Nat
  BY <1>1
<1> DEFINE A == 1 .. Len(dir)
           B == {i \in A : InUse(dir[i])}
<1>5. IsFiniteSet(A) /\ Cardinality(A) = Len(dir)
  <2>1. \A n \in Nat : IsFiniteSet(1 .. n) /\ Cardinality(1 .. n) = IF 1 > n THEN 0 ELSE n - 1 + 1
    BY FS_Interval
  <2>2. \A n \in Nat : Cardinality(1 .. n) = n
    BY <2>1
  <2> QED
    BY <1>4, <2>1, <2>2
<1>6. B \subseteq A
  OBVIOUS
<1> HIDE DEF A
<1>7. IsFiniteSet(B) /\ Cardinality(B) <= Cardinality(A) /\ Cardinality(B) \in Nat
  <2> HIDE DEF B
  <2>1. IsFiniteSet(B) /\ Cardinality(B) <= Cardinality(A)
    BY <1>5, <1>6, FS_Subset
  <2> QED
    BY <2>1, FS_CardinalityType
<1>8. fat16_get_total_items_for_directory(dir) \in 0 .. Len(dir)
  BY <1>4, <1>5, <1>7 DEF fat16_get_total_items_for_directory, A
<1>9. \A i \in 1 .. Len(dir) : dir[i] \in Items
  BY <1>2, <1>3 DEF Items
<1> QED
  BY <1>1, <1>8, <1>9

\* The entries among those searched that have the name, as istrncmp compares it.
Hits(dir, name) ==
    {i \in 1 .. fat16_get_total_items_for_directory(dir) :
        istrncmp(fat16_get_full_relative_filename(dir[i]), name, MAEROS_MAX_PATH)}

\* What is found is the last of them.
LEMMA FoundItem ==
    ASSUME NEW dir \in Directories, NEW name
    PROVE  /\ fat16_find_item_in_directory(dir, name) \subseteq Items
           /\ \A i \in Hits(dir, name) : i \in 1 .. Len(dir)
           /\ Hits(dir, name) # {} => \E i \in Hits(dir, name) : fat16_find_item_in_directory(dir, name) = {dir[i]}
           /\ Hits(dir, name) = {} => fat16_find_item_in_directory(dir, name) = {}
<1> DEFINE total == fat16_get_total_items_for_directory(dir)
           hits == Hits(dir, name)
           found == fat16_find_item_in_directory(dir, name)
           top == {i \in hits : \A k \in hits : k <= i}
<1>1. total \in 0 .. Len(dir) /\ Len(dir) \in Nat /\ \A i \in 1 .. Len(dir) : dir[i] \in Items
  BY TotalItems
<1>2. hits \subseteq 1 .. total
  BY DEF Hits
<1>3. found = {dir[i] : i \in top}
  BY DEF Hits, fat16_find_item_in_directory
<1> HIDE DEF total, hits, found
<1>4. \A i \in hits : i \in 1 .. Len(dir)
  BY <1>1, <1>2
<1>5. found \subseteq Items
  BY <1>1, <1>3, <1>4
<1>6. hits = {} => found = {}
  BY <1>3
<1>7. ASSUME hits # {} PROVE \E i \in hits : found = {dir[i]}
  <2> DEFINE T == {total - i : i \in hits}
  <2>0. total \in Nat /\ \A i \in hits : i \in Nat /\ total - i \in Nat
    BY <1>1, <1>2
  <2>1. T \subseteq Nat /\ T # {}
    BY <2>0, <1>7
  <2>2. PICK x \in T : \A y \in T : x <= y
    <3> HIDE DEF T
    <3> QED
      BY <2>1, LeastOf
  <2>3. PICK m \in hits : x = total - m
    BY <2>2
  <2>4. \A k \in hits : total - k \in T
    OBVIOUS
  <2>5. \A k \in hits : k <= m
    <3> SUFFICES ASSUME NEW k \in hits PROVE k <= m
      OBVIOUS
    <3>1. total - m <= total - k
      BY <2>2, <2>3, <2>4
    <3>2. total \in Nat /\ k \in Nat /\ m \in Nat
      BY <2>0
    <3> HIDE DEF T
    <3> QED
      BY <3>1, <3>2
  <2>6. top = {m}
    <3>1. \A i \in top : i <= m /\ m <= i /\ i \in Int /\ m \in Int
      BY <1>1, <1>2, <2>5
    <3>2. \A i \in top : i = m
      BY <3>1
    <3> QED
      BY <2>5, <3>2
  <2>7. found = {dir[m]}
    BY <1>3, <2>6
  <2> QED
    BY <2>7
<1> QED
  BY <1>4, <1>5, <1>6, <1>7 DEF hits, found

\* What one more part of a path leads to.
Below(items, name) ==
    UNION {fat16_find_item_in_directory(Subdirs[d.cluster], name) : d \in {e \in items : e.kind = "dir"}}

\* One part after the other: the directory entry is what the last one leads to.
LEMMA DirectoryEntry ==
    ASSUME NEW parts \in Seq(Seq(Chars)), parts # <<>>
    PROVE  /\ fat16_get_directory_entry(parts) \subseteq Items
           /\ Len(parts) = 1 => fat16_get_directory_entry(parts) = fat16_find_item_in_directory(Root, parts[1])
           /\ Len(parts) = 2 => fat16_get_directory_entry(parts)
                                  = Below(fat16_find_item_in_directory(Root, parts[1]), parts[2])
<1> DEFINE l == Len(parts)
           D == 1 .. l
           S == SUBSET Items
           R == 2 .. l
           first == fat16_find_item_in_directory(Root, parts[1])
           mu == [n \in D |-> n]
           h == [n \in R |-> n - 1]
           g == [n \in R |-> [s \in S |-> Below(s, parts[n])]]
           b == [n \in D |-> first]
           F(f) == [n \in D |-> IF n = 1 THEN first ELSE Below(f[n - 1], parts[n])]
           item == CHOOSE f : f = F(f)
<1>1. l \in Nat \ {0}
  BY EmptySeq
<1> HIDE DEF l
<1>2. first \in S
  <2>1. Root \in Directories
    BY DEF Directories
  <2> QED
    BY <2>1, FoundItem
<1>3. \A s \in S : \A name : Below(s, name) \in S
  <2> SUFFICES ASSUME NEW s \in S, NEW name PROVE Below(s, name) \subseteq Items
    OBVIOUS
  <2>1. \A d \in s : d.kind = "dir" => Subdirs[d.cluster] \in Directories
    BY DEF Items, Directories
  <2>2. \A d \in s : d.kind = "dir" => fat16_find_item_in_directory(Subdirs[d.cluster], name) \subseteq Items
    BY <2>1, FoundItem
  <2> QED
    BY <2>2 DEF Below
<1> HIDE DEF S, first
<1>4. HasSolution(D, S, R, h, g, b)
  <2>1. mu \in [D -> 0 .. l] /\ R \subseteq D
    BY <1>1
  <2>2. h \in [R -> D] /\ \A n \in R : mu[h[n]] < mu[n]
    BY <1>1
  <2>3. g \in [R -> [S -> S]]
    BY <1>3
  <2>4. b \in [D -> S]
    BY <1>2
  <2> HIDE DEF D, R, mu, h, g, b
  <2> QED
    BY <1>1, <2>1, <2>2, <2>3, <2>4, Descent
<1>5. item = F(item)
  <2>1. PICK f \in [D -> S] : \A n \in D : f[n] = IF n \in R THEN g[n][f[h[n]]] ELSE b[n]
    BY <1>4 DEF HasSolution
  <2>2. \A n \in R : f[n] = Below(f[n - 1], parts[n])
    <3>1. \A n \in R : n - 1 \in D /\ n \in D /\ h[n] = n - 1
      BY <1>1
    <3> QED
      BY <2>1, <3>1
  <2>3. \A n \in D : n # 1 => n \in R
    BY <1>1
  <2>4. \A n \in D : n = 1 => f[n] = first
    <3>1. 1 \in D /\ 1 \notin R
      BY <1>1
    <3>2. f[1] = b[1] /\ b[1] = first
      BY <2>1, <3>1
    <3> QED
      BY <3>2
  <2>5. f = F(f)
    BY <2>1, <2>2, <2>3, <2>4
  <2> HIDE DEF F
  <2> QED
    BY <2>5
<1>6. fat16_get_directory_entry(parts) = item[l]
  BY Zenon DEF fat16_get_directory_entry, Below, first, l
<1> HIDE DEF item
<1>7. item[1] = first /\ \A n \in 2 .. l : item[n] = Below(item[n - 1], parts[n])
  BY <1>1, <1>5
<1>8. \A n \in 0 .. l - 1 : n \in {k \in 0 .. l - 1 : item[k + 1] \in S}
  <2> DEFINE P == {k \in 0 .. l - 1 : item[k + 1] \in S}
  <2>1. 0 \in P
    BY <1>1, <1>2, <1>7
  <2>2. ASSUME NEW n \in 1 .. l - 1, n - 1 \in P PROVE n \in P
    <3>1. item[n] \in S /\ n + 1 \in 2 .. l
      BY <1>1, <2>2
    <3>2. item[n + 1] = Below(item[n], parts[n + 1])
      BY <1>1, <1>7, <3>1
    <3> QED
      BY <1>3, <3>1, <3>2
  <2>3. l - 1 \in Nat
    BY <1>1
  <2> HIDE DEF P
  <2>4. \A n \in 0 .. l - 1 : n \in P
    BY <2>1, <2>2, <2>3, UpTo
  <2> QED
    BY <2>4 DEF P
<1>9. item[l] \in S
  <2>1. l - 1 \in 0 .. l - 1 /\ (l - 1) + 1 = l
    BY <1>1
  <2> QED
    BY <1>8, <2>1
<1>10. l = 2 => item[l] = Below(first, parts[2])
  BY <1>7
<1> QED
  BY <1>6, <1>7, <1>9, <1>10 DEF S, l, first

-----------------------------------------------------------------------------
\* What fopen finds is what the parts of the path lead to.
LEMMA FoundIs ==
    ASSUME NEW path \in Paths, NEW mode, Found(path, mode) # {}
    PROVE  /\ pathparser_parse(path) # <<>>
           /\ Found(path, mode) = fat16_get_directory_entry(pathparser_parse(path))
           /\ Found(path, mode) \subseteq Items
<1> DEFINE parts == pathparser_parse(path)
<1>1. path \in Seq(Chars)
  BY ArgumentAssumption DEF Chars
<1>2. parts \in Seq(Seq(Chars))
  BY <1>1, ParsedType
<1> HIDE DEF parts
<1>3. parts # <<>> /\ Found(path, mode) = fat16_get_directory_entry(parts)
  BY DEF Found, fat16_open, parts
<1>4. fat16_get_directory_entry(parts) \subseteq Items
  BY <1>2, <1>3, DirectoryEntry
<1> QED
  BY <1>3, <1>4 DEF parts

\* A descriptor is open exactly while its entry is taken, and holds what the path it was
\* opened with leads to.
OpenInv ==
    /\ file_descriptors \in [Descriptors -> [item : SUBSET Items, pos : Nat]]
    /\ DOMAIN opened \subseteq Descriptors
    /\ \A fd \in Descriptors \ DOMAIN opened : file_descriptors[fd] = NULL
    /\ \A fd \in DOMAIN opened :
         /\ opened[fd] \in Paths /\ pathparser_parse(opened[fd]) # <<>>
         /\ file_descriptors[fd].item # {}
         /\ file_descriptors[fd].item = fat16_get_directory_entry(pathparser_parse(opened[fd]))

\* What the last call did still holds of the descriptors: a call that changes one is the
\* last itself.
LastInv ==
    /\ last.op = "read" =>
         /\ last.fd \in Descriptors /\ ItemOf(last.fd) \in Items
         /\ last.pos \in Nat
         /\ \E n \in Nat : FromFile(last.result, ItemOf(last.fd).cluster, last.pos, n)
    /\ last.op = "refused" =>
         /\ last.path \in Paths
         /\ Found(last.path, last.mode) = {} \/ FreeDescriptors = {}

FInv == OpenInv /\ LastInv

\* No descriptor is open at first.
LEMMA FilesInit == Init => FInv
<1> SUFFICES ASSUME Init PROVE FInv
  OBVIOUS
<1>1. opened = [fd \in {} |-> <<>>] /\ file_descriptors = [fd \in Descriptors |-> NULL] /\ last = Nothing
  BY DEF Init
<1>2. DOMAIN opened = {} /\ NULL \in [item : SUBSET Items, pos : Nat] /\ last.op = "none"
  BY <1>1 DEF NULL, Nothing
<1>3. OpenInv
  <2> HIDE DEF NULL
  <2> QED
    BY <1>1, <1>2 DEF OpenInv
<1>4. LastInv
  BY <1>2 DEF LastInv
<1> QED
  BY <1>3, <1>4 DEF FInv

\* An open descriptor's item.
LEMMA KnownItem ==
    ASSUME OpenInv, NEW fd \in Known
    PROVE  fd \in DOMAIN opened /\ ItemOf(fd) \in Items /\ file_descriptors[fd].pos \in Nat
<1>1. fd \in Descriptors /\ file_descriptors[fd] # NULL
  BY DEF Known
<1>2. fd \in DOMAIN opened
  BY <1>1 DEF OpenInv
<1>3. file_descriptors[fd].item # {} /\ file_descriptors[fd].item \subseteq Items /\ file_descriptors[fd].pos \in Nat
  <2>1. file_descriptors[fd] \in [item : SUBSET Items, pos : Nat]
    BY <1>1 DEF OpenInv
  <2> QED
    BY <1>2, <2>1 DEF OpenInv
<1>4. ItemOf(fd) \in file_descriptors[fd].item
  BY <1>3 DEF ItemOf
<1> QED
  BY <1>2, <1>3, <1>4

\* After a call whose result is not remembered.
LEMMA NothingKept ==
    ASSUME last' = Nothing
    PROVE  LastInv'
<1>1. last'.op = "none"
  BY DEF Nothing
<1> QED
  BY <1>1 DEF LastInv

\* A step of fopen that succeeds takes the first free entry.
LEMMA OpenStep ==
    ASSUME OpenInv, NEW path \in Paths, NEW mode, fopen(path, mode)
    PROVE  OpenInv'
<1> DEFINE fd == file_new_descriptor
           item == Found(path, mode)
<1>1. FreeDescriptors # {} /\ FreeDescriptors \subseteq Nat /\ FreeDescriptors \subseteq Descriptors
  BY LimitAssumption DEF fopen, FreeDescriptors, Descriptors
<1>2. fd \in Descriptors
  <2>1. \E x \in FreeDescriptors : \A y \in FreeDescriptors : x <= y
    BY <1>1, LeastOf
  <2>2. fd \in FreeDescriptors
    BY <2>1 DEF file_new_descriptor
  <2> QED
    BY <1>1, <2>2
<1>3. /\ item # {} /\ item \subseteq Items /\ pathparser_parse(path) # <<>>
      /\ item = fat16_get_directory_entry(pathparser_parse(path))
  BY FoundIs DEF fopen
<1>4. /\ file_descriptors' = [file_descriptors EXCEPT ![fd] = [item |-> item, pos |-> 0]]
      /\ opened' = [f \in DOMAIN opened \cup {fd} |-> IF f = fd THEN path ELSE opened[f]]
  BY DEF fopen
<1> HIDE DEF fd, item
<1>5. file_descriptors' \in [Descriptors -> [item : SUBSET Items, pos : Nat]]
  BY <1>2, <1>3, <1>4 DEF OpenInv
<1>6. DOMAIN opened' = DOMAIN opened \cup {fd} /\ DOMAIN opened' \subseteq Descriptors
  BY <1>2, <1>4 DEF OpenInv
<1>7. /\ file_descriptors'[fd].item = item /\ opened'[fd] = path
      /\ \A f \in Descriptors \ {fd} : file_descriptors'[f] = file_descriptors[f]
      /\ \A f \in DOMAIN opened \ {fd} : opened'[f] = opened[f]
  BY <1>2, <1>4 DEF OpenInv
<1>8. \A f \in Descriptors \ DOMAIN opened' : file_descriptors'[f] = NULL
  BY <1>6, <1>7 DEF OpenInv
<1>9. ASSUME NEW f \in DOMAIN opened'
      PROVE  /\ opened'[f] \in Paths /\ pathparser_parse(opened'[f]) # <<>>
             /\ file_descriptors'[f].item # {}
             /\ file_descriptors'[f].item = fat16_get_directory_entry(pathparser_parse(opened'[f]))
  <2>1. CASE f = fd
    BY <1>3, <1>7, <2>1
  <2>2. CASE f # fd
    <3>1. f \in DOMAIN opened /\ f \in Descriptors /\ opened'[f] = opened[f] /\ file_descriptors'[f] = file_descriptors[f]
      BY <1>6, <1>7, <2>2
    <3> QED
      BY <3>1 DEF OpenInv
  <2> QED
    BY <2>1, <2>2
<1> QED
  BY <1>5, <1>6, <1>8, <1>9 DEF OpenInv

\* A step of fclose.
LEMMA CloseStep ==
    ASSUME OpenInv, NEW fd \in Descriptors, fclose(fd)
    PROVE  OpenInv'
<1>1. /\ file_descriptors' = [file_descriptors EXCEPT ![fd] = NULL]
      /\ opened' = [f \in DOMAIN opened \ {fd} |-> opened[f]]
  BY DEF fclose
<1>2. NULL \in [item : SUBSET Items, pos : Nat]
  BY DEF NULL
<1> HIDE DEF NULL
<1>3. file_descriptors' \in [Descriptors -> [item : SUBSET Items, pos : Nat]]
  BY <1>1, <1>2 DEF OpenInv
<1>4. DOMAIN opened' = DOMAIN opened \ {fd} /\ DOMAIN opened' \subseteq Descriptors
  BY <1>1 DEF OpenInv
<1>5. /\ file_descriptors'[fd] = NULL
      /\ \A f \in Descriptors \ {fd} : file_descriptors'[f] = file_descriptors[f]
      /\ \A f \in DOMAIN opened' : opened'[f] = opened[f]
  BY <1>1 DEF OpenInv
<1> QED
  BY <1>3, <1>4, <1>5 DEF OpenInv

\* A step of fseek moves a position and nothing else.
LEMMA SeekStep ==
    ASSUME OpenInv, NEW fd \in Descriptors, NEW offset \in Offsets, NEW whence \in {"SEEK_SET", "SEEK_CUR"},
           fseek(fd, offset, whence)
    PROVE  OpenInv'
<1> DEFINE p == CASE whence = "SEEK_SET" -> offset
                  [] whence = "SEEK_CUR" -> (file_descriptors[fd].pos + offset) % Word
<1>1. file_descriptors' = [file_descriptors EXCEPT ![fd].pos = p] /\ opened' = opened
  BY DEF fseek
<1>2. file_descriptors[fd] \in [item : SUBSET Items, pos : Nat]
  BY DEF OpenInv
<1>3. p \in Nat
  <2>1. offset \in Nat /\ Word \in Nat \ {0} /\ file_descriptors[fd].pos \in Nat
    BY <1>2, ArgumentAssumption, WordAssumption
  <2>2. whence = "SEEK_SET" \/ whence = "SEEK_CUR"
    OBVIOUS
  <2> QED
    BY <2>1, <2>2
<1> HIDE DEF p
<1>4. /\ file_descriptors' \in [Descriptors -> [item : SUBSET Items, pos : Nat]]
      /\ \A f \in Descriptors : file_descriptors'[f].item = file_descriptors[f].item
      /\ \A f \in Descriptors \ {fd} : file_descriptors'[f] = file_descriptors[f]
  BY <1>1, <1>2, <1>3 DEF OpenInv
<1>5. fd \in DOMAIN opened
  BY KnownItem DEF fseek
<1> QED
  BY <1>1, <1>4, <1>5 DEF OpenInv

\* A read remembers what it returned.
LEMMA ReadStep ==
    ASSUME OpenInv, NEW size \in ReadSizes, NEW nmemb \in Members, NEW fd \in Descriptors, NEW w \in DataWords,
           fread(size, nmemb, fd, w)
    PROVE  LastInv'
<1> DEFINE pos == file_descriptors[fd].pos
           result == fat16_read(ItemOf(fd).cluster, pos, size, nmemb, w)
<1>1. fd \in Known /\ last' = [op |-> "read", fd |-> fd, pos |-> pos, result |-> result]
  BY DEF fread
<1>2. file_descriptors' = file_descriptors
  BY DEF fread
<1>3. ItemOf(fd) \in Items /\ pos \in Nat
  BY <1>1, KnownItem
<1>4. ItemOf(fd).cluster \in Nat
  BY <1>3 DEF Items, fat_directory_item
<1>5. size \in Nat /\ nmemb \in Nat /\ w \in Nat /\ nmemb * size \in Nat
  BY ArgumentAssumption
<1> DEFINE n == nmemb * size
           cluster == ItemOf(fd).cluster
<1>6. FromFile(result, cluster, pos, n)
  <2> HIDE DEF pos, cluster
  <2> QED
    BY <1>3, <1>4, <1>5, ReadExact DEF cluster
<1> HIDE DEF pos, result
<1>7. /\ last'.op = "read" /\ last'.fd = fd /\ last'.pos = pos /\ last'.result = result
      /\ ItemOf(last.fd)' = ItemOf(fd)
  BY <1>1, <1>2 DEF ItemOf
<1>8. \E k \in Nat : FromFile(last'.result, ItemOf(last.fd)'.cluster, last'.pos, k)
  <2> HIDE DEF n
  <2> QED
    BY <1>5, <1>6, <1>7 DEF n
<1> QED
  BY <1>3, <1>7, <1>8 DEF LastInv

\* Each step.
LEMMA FilesStep == FInv /\ [Next]_vars => FInv'
<1> SUFFICES ASSUME FInv, [Next]_vars PROVE FInv'
  OBVIOUS
<1>0. OpenInv /\ LastInv
  BY DEF FInv
<1>1. CASE \E path \in Paths, mode \in {"r", "w"} : fopen(path, mode)
  <2>1. PICK path \in Paths, mode \in {"r", "w"} : fopen(path, mode)
    BY <1>1
  <2>2. OpenInv'
    BY <1>0, <2>1, OpenStep
  <2>3. LastInv'
    BY <2>1, NothingKept DEF fopen
  <2> QED
    BY <2>2, <2>3 DEF FInv
<1>2. CASE \E path \in Paths, mode \in {"r", "w"} : fopen_fails(path, mode)
  <2>1. PICK path \in Paths, mode \in {"r", "w"} : fopen_fails(path, mode)
    BY <1>2
  <2>2. /\ last' = [op |-> "refused", path |-> path, mode |-> mode]
        /\ UNCHANGED <<filesystem, file_descriptors, opened>>
        /\ Found(path, mode) = {} \/ FreeDescriptors = {}
    BY <2>1 DEF fopen_fails
  <2>3. OpenInv'
    BY <1>0, <2>2 DEF OpenInv
  <2>4. last'.op = "refused" /\ last'.path = path /\ last'.mode = mode
    BY <2>2
  <2>5. Found(path, mode)' = Found(path, mode) /\ FreeDescriptors' = FreeDescriptors
    BY <2>2 DEF Found, FreeDescriptors
  <2>6. LastInv'
    BY <2>2, <2>4, <2>5 DEF LastInv
  <2> QED
    BY <2>3, <2>6 DEF FInv
<1>3. CASE \E fd \in Descriptors : fclose(fd)
  <2>1. PICK fd \in Descriptors : fclose(fd)
    BY <1>3
  <2>2. OpenInv'
    BY <1>0, <2>1, CloseStep
  <2>3. LastInv'
    BY <2>1, NothingKept DEF fclose
  <2> QED
    BY <2>2, <2>3 DEF FInv
<1>4. CASE \E fd \in Descriptors, offset \in Offsets, whence \in {"SEEK_SET", "SEEK_CUR"} :
              fseek(fd, offset, whence)
  <2>1. PICK fd \in Descriptors, offset \in Offsets, whence \in {"SEEK_SET", "SEEK_CUR"} :
               fseek(fd, offset, whence)
    BY <1>4
  <2>2. OpenInv'
    BY <1>0, <2>1, SeekStep
  <2>3. LastInv'
    BY <2>1, NothingKept DEF fseek
  <2> QED
    BY <2>2, <2>3 DEF FInv
<1>5. CASE \E size \in ReadSizes, nmemb \in Members, fd \in Descriptors, w \in DataWords :
              fread(size, nmemb, fd, w)
  <2>1. PICK size \in ReadSizes, nmemb \in Members, fd \in Descriptors, w \in DataWords :
               fread(size, nmemb, fd, w)
    BY <1>5
  <2>2. OpenInv'
    BY <1>0, <2>1 DEF fread, OpenInv
  <2>3. LastInv'
    BY <1>0, <2>1, ReadStep
  <2> QED
    BY <2>2, <2>3 DEF FInv
<1>6. CASE UNCHANGED vars
  <2>1. UNCHANGED <<filesystem, file_descriptors, opened, last>>
    BY <1>6 DEF vars
  <2>2. OpenInv'
    BY <1>0, <2>1 DEF OpenInv
  <2>3. FreeDescriptors' = FreeDescriptors /\ ItemOf(last.fd)' = ItemOf(last.fd)
    BY <2>1 DEF FreeDescriptors, ItemOf
  <2>4. Found(last.path, last.mode)' = Found(last.path, last.mode)
    BY <2>1 DEF Found
  <2>5. LastInv'
    BY <1>0, <2>1, <2>3, <2>4 DEF LastInv
  <2> QED
    BY <2>2, <2>5 DEF FInv
<1> QED
  BY <1>1, <1>2, <1>3, <1>4, <1>5, <1>6 DEF Next

\* The first cluster of a file is read as it is (FirstClusterExact), for every disk, every
\* position and every number and size of members: what a read returns up to the end of the
\* first cluster are the file's bytes, and it fails only behind it.
THEOREM ReadsFirstCluster == Spec => []FirstClusterExact
<1>1. FInv => FirstClusterExact
  <2> SUFFICES ASSUME FInv, last.op = "read"
               PROVE  LET start == fat16_cluster_to_sector(ItemOf(last.fd).cluster) * SectorSize
                          bytes == last.result.bytes
                      IN  /\ \A k \in 1 .. Len(bytes) :
                               last.pos + k <= size_of_cluster_bytes => bytes[k] = start + last.pos + k - 1
                          /\ ~last.result.ok => last.pos + Len(bytes) >= size_of_cluster_bytes
    BY DEF FirstClusterExact
  <2>1. PICK n \in Nat : FromFile(last.result, ItemOf(last.fd).cluster, last.pos, n)
    BY DEF FInv, LastInv
  <2> QED
    BY <2>1 DEF FromFile, StartOf
<1> QED
  BY <1>1, FilesInit, FilesStep, PTL DEF Spec

-----------------------------------------------------------------------------
\* A part that is written in a path is read from it.
LEMMA PartAt ==
    ASSUME NEW path \in Seq(Chars), NEW a \in Seq(Chars), NEW i \in 1 .. Len(path) + 1,
           i + Len(a) <= Len(path) + 1,
           \A k \in 1 .. Len(a) : path[(i - 1) + k] = a[k] /\ a[k] # Slash,
           i + Len(a) = Len(path) + 1 \/ path[i + Len(a)] = Slash
    PROVE  EndOf(path, i) = i + Len(a) /\ SubSeq(path, i, EndOf(path, i) - 1) = a
<1> DEFINE e == i + Len(a)
<1>0. Len(a) \in Nat /\ Len(path) \in Nat
  OBVIOUS
<1>1. e \in i .. Len(path) + 1 /\ (e = Len(path) + 1 \/ path[e] = Slash)
  BY <1>0
<1>2. \A k \in i .. e - 1 : path[k] # Slash
  <2> SUFFICES ASSUME NEW k \in i .. e - 1 PROVE path[k] # Slash
    OBVIOUS
  <2>1. k - i + 1 \in 1 .. Len(a) /\ (i - 1) + (k - i + 1) = k
    BY <1>0
  <2>2. path[(i - 1) + (k - i + 1)] = a[k - i + 1] /\ a[k - i + 1] # Slash
    BY <2>1
  <2> QED
    BY <2>1, <2>2
<1> HIDE DEF e
<1>3. EndOf(path, i) = e
  BY <1>1, <1>2, PartEndsAt
<1>4. SubSeq(path, i, e - 1) = a
  <2> DEFINE z == SubSeq(path, i, e - 1)
  <2>1. i \in 1 .. Len(path) + 1 /\ e - 1 \in i - 1 .. Len(path)
    BY <1>0, <1>1
  <2>2. z \in Seq(Chars) /\ Len(z) = (e - 1) - i + 1 /\ \A k \in 1 .. (e - 1) - i + 1 : z[k] = path[i + k - 1]
    BY <2>1, SubSeqProperties
  <2>3. (e - 1) - i + 1 = Len(a)
    BY <1>0 DEF e
  <2> HIDE DEF z
  <2>4. \A k \in 1 .. Len(a) : z[k] = a[k]
    <3>1. \A k \in 1 .. Len(a) : i + k - 1 = (i - 1) + k
      OBVIOUS
    <3> QED
      BY <2>2, <2>3, <3>1
  <2>5. z = a
    BY <2>2, <2>3, <2>4, SeqEqual
  <2> QED
    BY <2>5 DEF z
<1> QED
  BY <1>3, <1>4 DEF e

\* Of a name that may be written.
LEMMA NameType ==
    ASSUME NEW a \in Names
    PROVE  /\ a \in Seq(Chars) /\ a # <<>> /\ Len(a) \in Nat \ {0}
           /\ \A i \in 1 .. Len(a) : a[i] \in Chars /\ a[i] \notin {0, Blank, Slash}
<1>1. /\ a \in Seq(Chars) /\ a # <<>>
      /\ \A i \in 1 .. Len(a) : a[i] \notin {0, Blank, Slash}
  BY NamesAssumption DEF Chars
<1>2. Len(a) \in Nat \ {0}
  BY <1>1, EmptySeq
<1>3. \A i \in 1 .. Len(a) : a[i] \in Chars
  BY <1>1
<1> QED
  BY <1>1, <1>2, <1>3

\* Two strings one after the other.
LEMMA Joined ==
    ASSUME NEW x \in Seq(Chars), NEW y \in Seq(Chars)
    PROVE  /\ x \o y \in Seq(Chars) /\ Len(x \o y) = Len(x) + Len(y)
           /\ \A i \in 1 .. Len(x) : (x \o y)[i] = x[i]
           /\ \A i \in 1 .. Len(y) : (x \o y)[Len(x) + i] = y[i]
<1>1. /\ x \o y \in Seq(Chars) /\ Len(x \o y) = Len(x) + Len(y)
      /\ \A i \in 1 .. Len(x) + Len(y) : (x \o y)[i] = IF i <= Len(x) THEN x[i] ELSE y[i - Len(x)]
  BY ConcatProperties
<1>2. Len(x) \in Nat /\ Len(y) \in Nat
  OBVIOUS
<1>3. \A i \in 1 .. Len(x) : (x \o y)[i] = x[i]
  BY <1>1, <1>2
<1>4. \A i \in 1 .. Len(y) : (x \o y)[Len(x) + i] = y[i]
  <2> SUFFICES ASSUME NEW i \in 1 .. Len(y) PROVE (x \o y)[Len(x) + i] = y[i]
    OBVIOUS
  <2>1. Len(x) + i \in 1 .. Len(x) + Len(y) /\ ~(Len(x) + i <= Len(x)) /\ Len(x) + i - Len(x) = i
    BY <1>2
  <2> QED
    BY <1>1, <2>1
<1> QED
  BY <1>1, <1>3, <1>4

\* The drive, then the name.
LEMMA PathOfOne ==
    ASSUME NEW a \in Names
    PROVE  LET path == Written(<<a>>)
           IN  /\ path \in Seq(Chars) /\ Len(path) = 3 + Len(a)
               /\ path[1] = 48 /\ path[2] = Colon /\ path[3] = Slash
               /\ \A k \in 1 .. Len(a) : path[3 + k] = a[k]
<1> DEFINE r == <<48, Colon, Slash>>
           path == r \o a
<1>1. a \in Seq(Chars) /\ Len(a) \in Nat
  BY NameType
<1>2. r \in Seq(Chars) /\ Len(r) = 3 /\ r[1] = 48 /\ r[2] = Colon /\ r[3] = Slash
  BY DEF Chars, Colon, Slash
<1>3. Written(<<a>>) = path
  BY DEF Written
<1> HIDE DEF r
<1>4. r \in Seq(Chars) /\ a \in Seq(Chars)
  BY <1>1, <1>2
<1>5. /\ path \in Seq(Chars) /\ Len(path) = Len(r) + Len(a)
      /\ \A i \in 1 .. Len(r) : path[i] = r[i]
      /\ \A i \in 1 .. Len(a) : path[Len(r) + i] = a[i]
  BY <1>4, Joined
<1> HIDE DEF path
<1> QED
  BY <1>1, <1>2, <1>3, <1>5, SMTT(30)

\* The drive, then two names with a slash between them.
LEMMA PathOfTwo ==
    ASSUME NEW a \in Names, NEW b \in Names
    PROVE  LET path == Written(<<a, b>>)
           IN  /\ path \in Seq(Chars) /\ Len(path) = 4 + Len(a) + Len(b)
               /\ path[1] = 48 /\ path[2] = Colon /\ path[3] = Slash
               /\ \A k \in 1 .. Len(a) : path[3 + k] = a[k]
               /\ path[4 + Len(a)] = Slash
               /\ \A k \in 1 .. Len(b) : path[4 + Len(a) + k] = b[k]
<1> DEFINE r == <<48, Colon, Slash>>
           d == <<Slash>>
           m == a \o d
           t == m \o b
           path == r \o t
<1>1. a \in Seq(Chars) /\ Len(a) \in Nat /\ b \in Seq(Chars) /\ Len(b) \in Nat
  BY NameType
<1>2. r \in Seq(Chars) /\ Len(r) = 3 /\ r[1] = 48 /\ r[2] = Colon /\ r[3] = Slash
  BY DEF Chars, Colon, Slash
<1>3. d \in Seq(Chars) /\ Len(d) = 1 /\ d[1] = Slash
  BY DEF Chars, Slash
<1>4. Written(<<a, b>>) = path
  BY DEF Written
<1> HIDE DEF r, d
<1>5. a \in Seq(Chars) /\ b \in Seq(Chars) /\ d \in Seq(Chars) /\ r \in Seq(Chars)
  BY <1>1, <1>2, <1>3
<1>6. /\ m \in Seq(Chars) /\ Len(m) = Len(a) + Len(d)
      /\ \A i \in 1 .. Len(a) : m[i] = a[i]
      /\ \A i \in 1 .. Len(d) : m[Len(a) + i] = d[i]
  BY <1>5, Joined
<1> HIDE DEF m
<1>7. /\ t \in Seq(Chars) /\ Len(t) = Len(m) + Len(b)
      /\ \A i \in 1 .. Len(m) : t[i] = m[i]
      /\ \A i \in 1 .. Len(b) : t[Len(m) + i] = b[i]
  <2>1. m \in Seq(Chars) /\ b \in Seq(Chars)
    BY <1>5, <1>6
  <2> QED
    BY <2>1, Joined
<1> HIDE DEF t
<1>8. /\ path \in Seq(Chars) /\ Len(path) = Len(r) + Len(t)
      /\ \A i \in 1 .. Len(r) : path[i] = r[i]
      /\ \A i \in 1 .. Len(t) : path[Len(r) + i] = t[i]
  <2>1. r \in Seq(Chars) /\ t \in Seq(Chars)
    BY <1>5, <1>7
  <2> QED
    BY <2>1, Joined
<1> HIDE DEF path
<1>9. Len(m) = Len(a) + 1 /\ Len(t) = Len(a) + 1 + Len(b) /\ Len(path) = 4 + Len(a) + Len(b)
  BY <1>1, <1>2, <1>3, <1>6, <1>7, <1>8
<1>10. \A k \in 1 .. Len(a) : path[3 + k] = a[k]
  <2> SUFFICES ASSUME NEW k \in 1 .. Len(a) PROVE path[3 + k] = a[k]
    OBVIOUS
  <2>1. k \in 1 .. Len(m) /\ k \in 1 .. Len(t)
    BY <1>1, <1>9
  <2> QED
    BY <1>2, <1>6, <1>7, <1>8, <2>1
<1>11. path[4 + Len(a)] = Slash
  <2>1. Len(a) + 1 \in 1 .. Len(m) /\ Len(a) + 1 \in 1 .. Len(t) /\ 3 + (Len(a) + 1) = 4 + Len(a)
    BY <1>1, <1>9
  <2>2. m[Len(a) + 1] = Slash
    BY <1>3, <1>6
  <2> QED
    BY <1>2, <1>7, <1>8, <2>1, <2>2
<1>12. \A k \in 1 .. Len(b) : path[4 + Len(a) + k] = b[k]
  <2> SUFFICES ASSUME NEW k \in 1 .. Len(b) PROVE path[4 + Len(a) + k] = b[k]
    OBVIOUS
  <2>1. Len(a) + 1 + k \in 1 .. Len(t) /\ 3 + (Len(a) + 1 + k) = 4 + Len(a) + k
    BY <1>1, <1>9
  <2>2. t[Len(a) + 1 + k] = b[k]
    BY <1>7, <1>9
  <2> QED
    BY <1>2, <1>8, <2>1, <2>2
<1>13. path[1] = 48 /\ path[2] = Colon /\ path[3] = Slash
  BY <1>2, <1>8
<1>14. path \in Seq(Chars) /\ Len(path) = 4 + Len(a) + Len(b)
  BY <1>8, <1>9
<1> QED
  BY <1>4, <1>10, <1>11, <1>12, <1>13, <1>14, Zenon

\* The part that starts at i is a.
PartIs(path, i, a) ==
    /\ a \in Seq(Chars) /\ a # <<>>
    /\ EndOf(path, i) = i + Len(a) /\ SubSeq(path, i, EndOf(path, i) - 1) = a

\* A part and what follows it.
LEMMA OnePart ==
    ASSUME NEW path \in Seq(Chars), NEW f, PartsOf(f, path), NEW i \in 1 .. Len(path) + 1,
           NEW a, PartIs(path, i, a)
    PROVE  f[i] = <<a>> \o (IF i + Len(a) <= Len(path) THEN f[i + Len(a) + 1] ELSE <<>>)
BY Zenon DEF PartsOf, PartIs

\* Lists of one and of two.
LEMMA ShortLists ==
    ASSUME NEW S, NEW a \in S, NEW b \in S
    PROVE  <<a>> \o <<>> = <<a>> /\ <<a>> \o <<b>> = <<a, b>>
<1>1. <<a>> \in Seq(S)
  OBVIOUS
<1>2. Append(<<a>>, b) = <<a, b>>
  <2> DEFINE x == Append(<<a>>, b)
             y == <<a, b>>
  <2>1. Len(<<a>>) = 1 /\ <<a>>[1] = a
    OBVIOUS
  <2>2. y \in Seq(S) /\ Len(y) = 2 /\ y[1] = a /\ y[2] = b
    OBVIOUS
  <2>3. /\ x \in Seq(S) /\ Len(x) = Len(<<a>>) + 1
        /\ \A i \in 1 .. Len(<<a>>) : x[i] = <<a>>[i]
        /\ x[Len(<<a>>) + 1] = b
    BY <1>1, AppendProperties
  <2> HIDE DEF x, y
  <2>4. Len(x) = 2 /\ x[1] = a /\ x[2] = b
    BY <2>1, <2>3
  <2>5. \A i \in 1 .. 2 : x[i] = y[i]
    BY <2>2, <2>4
  <2>6. x = y
    BY <2>2, <2>3, <2>4, <2>5, SeqEqual
  <2> QED
    BY <2>6 DEF x, y
<1>3. <<a>> \o <<b>> = <<a, b>>
  BY <1>1, <1>2, AppendIsConcat
<1> QED
  BY <1>1, <1>3, ConcatEmptySeq

\* What is written is what is parsed: a path of one name or two, unless it is too long.
LEMMA ParsedWritten ==
    ASSUME NEW names \in NameLists, Len(Written(names)) <= MAEROS_MAX_PATH
    PROVE  pathparser_parse(Written(names)) = names
<1> DEFINE path == Written(names)
<1>0. Len(path) <= MAEROS_MAX_PATH /\ MAEROS_MAX_PATH \in Nat
  BY SizesAssumption
<1>1. ASSUME NEW a \in Names, names = <<a>> PROVE pathparser_parse(path) = names
  <2>1. a \in Seq(Chars) /\ a # <<>> /\ Len(a) \in Nat \ {0} /\ \A k \in 1 .. Len(a) : a[k] # Slash
    BY NameType
  <2>2. /\ path \in Seq(Chars) /\ Len(path) = 3 + Len(a)
        /\ path[1] = 48 /\ path[2] = Colon /\ path[3] = Slash
        /\ \A k \in 1 .. Len(a) : path[3 + k] = a[k]
    BY <1>1, PathOfOne
  <2> HIDE DEF path
  <2>3. pathparser_parse(path) = pathparser_parse_path_part(path)
    <3>1. pathparser_path_valid_format(path)
      BY <2>1, <2>2 DEF pathparser_path_valid_format, Digits
    <3>2. ~(Len(path) > MAEROS_MAX_PATH)
      BY <1>0, <2>1, <2>2
    <3> QED
      BY <3>1, <3>2 DEF pathparser_parse
  <2>4. PICK f : PartsOf(f, path) /\ pathparser_parse_path_part(path) = f[4]
    BY <2>1, <2>2, PathParts
  <2>5. 4 \in 1 .. Len(path) + 1 /\ 4 + Len(a) = Len(path) + 1 /\ 4 - 1 = 3
    BY <2>1, <2>2
  <2>6. EndOf(path, 4) = 4 + Len(a) /\ SubSeq(path, 4, EndOf(path, 4) - 1) = a
    <3>1. \A k \in 1 .. Len(a) : path[(4 - 1) + k] = a[k] /\ a[k] # Slash
      BY <2>1, <2>2
    <3>2. path \in Seq(Chars) /\ a \in Seq(Chars) /\ 4 + Len(a) <= Len(path) + 1
      BY <2>1, <2>2
    <3> QED
      BY <2>5, <3>1, <3>2, PartAt
  <2>7. f[4] = <<a>>
    <3>1. PartIs(path, 4, a)
      BY <2>1, <2>6 DEF PartIs
    <3>2. f[4] = <<a>> \o (IF 4 + Len(a) <= Len(path) THEN f[4 + Len(a) + 1] ELSE <<>>)
      <4>1. path \in Seq(Chars) /\ PartsOf(f, path) /\ 4 \in 1 .. Len(path) + 1
        BY <2>2, <2>4, <2>5
      <4> QED
        BY <3>1, <4>1, OnePart
    <3>3. ~(4 + Len(a) <= Len(path)) /\ <<a>> \o <<>> = <<a>>
      BY <2>1, <2>2, ShortLists
    <3> QED
      BY <3>2, <3>3
  <2> QED
    BY <1>1, <2>3, <2>4, <2>7
<1>2. ASSUME NEW a \in Names, NEW b \in Names, names = <<a, b>> PROVE pathparser_parse(path) = names
  <2>1. /\ a \in Seq(Chars) /\ a # <<>> /\ Len(a) \in Nat \ {0} /\ \A k \in 1 .. Len(a) : a[k] # Slash
        /\ b \in Seq(Chars) /\ b # <<>> /\ Len(b) \in Nat \ {0} /\ \A k \in 1 .. Len(b) : b[k] # Slash
    BY NameType
  <2>2. /\ path \in Seq(Chars) /\ Len(path) = 4 + Len(a) + Len(b)
        /\ path[1] = 48 /\ path[2] = Colon /\ path[3] = Slash
        /\ \A k \in 1 .. Len(a) : path[3 + k] = a[k]
        /\ path[4 + Len(a)] = Slash
        /\ \A k \in 1 .. Len(b) : path[4 + Len(a) + k] = b[k]
    BY <1>2, PathOfTwo, SMTT(30)
  <2> HIDE DEF path
  <2>3. pathparser_parse(path) = pathparser_parse_path_part(path)
    <3>1. pathparser_path_valid_format(path)
      BY <2>1, <2>2 DEF pathparser_path_valid_format, Digits
    <3>2. ~(Len(path) > MAEROS_MAX_PATH)
      BY <1>0, <2>1, <2>2
    <3> QED
      BY <3>1, <3>2 DEF pathparser_parse
  <2>4. PICK f : PartsOf(f, path) /\ pathparser_parse_path_part(path) = f[4]
    BY <2>1, <2>2, PathParts
  <2> DEFINE n == 5 + Len(a)
  <2>5. /\ 4 \in 1 .. Len(path) + 1 /\ 4 + Len(a) <= Len(path) /\ 4 + Len(a) \in Nat /\ 4 + Len(a) + 1 = n
        /\ n \in 1 .. Len(path) + 1 /\ n + Len(b) = Len(path) + 1 /\ n + Len(b) \in Nat
    BY <2>1, <2>2
  <2>6. f[4] = <<a>> \o f[n]
    <3>1. \A k \in 1 .. Len(a) : path[(4 - 1) + k] = a[k] /\ a[k] # Slash
      BY <2>1, <2>2
    <3>2. /\ path \in Seq(Chars) /\ a \in Seq(Chars) /\ a # <<>> /\ 4 + Len(a) <= Len(path) + 1
          /\ path[4 + Len(a)] = Slash
      BY <2>1, <2>2
    <3>3. EndOf(path, 4) = 4 + Len(a) /\ SubSeq(path, 4, EndOf(path, 4) - 1) = a
      BY <2>5, <3>1, <3>2, PartAt
    <3>4. PartIs(path, 4, a)
      BY <3>2, <3>3 DEF PartIs
    <3>5. f[4] = <<a>> \o (IF 4 + Len(a) <= Len(path) THEN f[4 + Len(a) + 1] ELSE <<>>)
      BY <2>2, <2>4, <2>5, <3>4, OnePart
    <3> QED
      BY <2>5, <3>5
  <2>7. f[n] = <<b>>
    <3>1. \A k \in 1 .. Len(b) : path[(n - 1) + k] = b[k] /\ b[k] # Slash
      <4>1. n - 1 = 4 + Len(a)
        BY <2>1
      <4> HIDE DEF n
      <4> QED
        BY <2>1, <2>2, <4>1
    <3>2. path \in Seq(Chars) /\ b \in Seq(Chars) /\ b # <<>> /\ n + Len(b) <= Len(path) + 1
      BY <2>1, <2>2, <2>5
    <3> HIDE DEF n
    <3>3. EndOf(path, n) = n + Len(b) /\ SubSeq(path, n, EndOf(path, n) - 1) = b
      BY <2>5, <3>1, <3>2, PartAt
    <3>4. PartIs(path, n, b)
      BY <3>2, <3>3 DEF PartIs
    <3>5. f[n] = <<b>> \o (IF n + Len(b) <= Len(path) THEN f[n + Len(b) + 1] ELSE <<>>)
      BY <2>2, <2>4, <2>5, <3>4, OnePart
    <3>6. ~(n + Len(b) <= Len(path)) /\ <<b>> \o <<>> = <<b>>
      <4>1. Len(path) \in Nat
        BY <2>2
      <4>2. <<b>> \o <<>> = <<b>>
        BY ShortLists
      <4> QED
        BY <2>5, <4>1, <4>2
    <3> QED
      BY <3>5, <3>6
  <2>8. <<a>> \o <<b>> = <<a, b>>
    BY <2>1, ShortLists
  <2> QED
    BY <1>2, <2>3, <2>4, <2>6, <2>7, <2>8
<1> QED
  BY <1>1, <1>2 DEF NameLists

-----------------------------------------------------------------------------
\* The field of an entry.
LEMMA FieldType ==
    ASSUME NEW w \in Nat, NEW field \in [1 .. w -> Chars]
    PROVE  field \in Seq(Chars) /\ Len(field) = w /\ DOMAIN field = 1 .. w
OBVIOUS

\* The characters of a field before its padding.
LEMMA ProperString ==
    ASSUME NEW w \in Nat, NEW field \in [1 .. w -> Chars], NEW n \in 0 .. w, Padded(field, n)
    PROVE  LET s == fat16_to_proper_string(field)
           IN  s \in Seq(Chars) /\ Len(s) = n /\ \A i \in 1 .. n : s[i] = field[i]
<1> DEFINE padding == {i \in 1 .. Len(field) : field[i] \in {0, Blank}}
           C(m) == (\A i \in padding : m < i) /\ (m = Len(field) \/ m + 1 \in padding)
           x == CHOOSE m \in 0 .. Len(field) : C(m)
           s == SubSeq(field, 1, x)
<1>1. field \in Seq(Chars) /\ Len(field) = w /\ DOMAIN field = 1 .. w
  BY FieldType
<1>2. \A i \in 1 .. w : IF i <= n THEN field[i] \notin {0, Blank} ELSE field[i] = Blank
  BY <1>1 DEF Padded
<1>3. \A i \in 1 .. w : i \in padding <=> n < i
  BY <1>1, <1>2
<1>4. padding \subseteq 1 .. w
  BY <1>1
<1> HIDE DEF padding
<1>5. C(n)
  BY <1>1, <1>3, <1>4
<1>6. \A m \in 0 .. w : C(m) => m = n
  <2> SUFFICES ASSUME NEW m \in 0 .. w, C(m) PROVE m = n
    OBVIOUS
  <2>1. CASE m < n
    <3>1. m + 1 \in padding
      BY <1>1, <2>1
    <3> QED
      BY <1>3, <1>4, <2>1, <3>1
  <2>2. CASE n < m
    <3>1. n + 1 \in padding
      BY <1>3, <2>2
    <3> QED
      BY <2>2, <3>1
  <2> QED
    BY <2>1, <2>2
<1> HIDE DEF C
<1>7. x = n
  <2>1. n \in 0 .. Len(field)
    BY <1>1
  <2>2. x \in 0 .. Len(field) /\ C(x)
    BY <1>5, <2>1, Zenon
  <2> QED
    BY <1>1, <1>6, <2>2
<1>8. fat16_to_proper_string(field) = s
  BY Zenon DEF fat16_to_proper_string, padding, C
<1> HIDE DEF x
<1>9. s \in Seq(Chars) /\ Len(s) = n /\ \A i \in 1 .. n : s[i] = field[i]
  <2>1. 1 \in 1 .. Len(field) + 1 /\ n \in 1 - 1 .. Len(field)
    BY <1>1
  <2> DEFINE z == SubSeq(field, 1, n)
  <2>2. z \in Seq(Chars) /\ Len(z) = n - 1 + 1 /\ \A i \in 1 .. n - 1 + 1 : z[i] = field[1 + i - 1]
    BY <1>1, <2>1, SubSeqProperties
  <2> HIDE DEF z
  <2>3. n - 1 + 1 = n /\ \A i \in 1 .. n : 1 + i - 1 = i
    OBVIOUS
  <2>4. z \in Seq(Chars) /\ Len(z) = n /\ \A i \in 1 .. n : z[i] = field[i]
    BY <2>2, <2>3
  <2> QED
    BY <1>7, <2>4 DEF z
<1> QED
  BY <1>8, <1>9, Zenon

\* s is written as n characters of a filename and, unless m is 0, a dot and m characters of
\* an extension.
FullName(s, item, n, m) ==
    /\ s \in Seq(Chars)
    /\ Len(s) = n + (IF m = 0 THEN 0 ELSE m + 1)
    /\ \A i \in 1 .. n : s[i] = item.filename[i]
    /\ m # 0 => s[n + 1] = Dot /\ \A i \in 1 .. m : s[n + 1 + i] = item.ext[i]

\* That is what fat16_get_full_relative_filename returns.
LEMMA FullRelative ==
    ASSUME NEW item \in fat_directory_item, NEW n \in 0 .. NameWidth, NEW m \in 0 .. ExtWidth,
           Padded(item.filename, n), Padded(item.ext, m)
    PROVE  FullName(fat16_get_full_relative_filename(item), item, n, m)
<1> DEFINE l == fat16_to_proper_string(item.filename)
           d == <<Dot>>
           e == fat16_to_proper_string(item.ext)
           r == d \o e
           full == fat16_get_full_relative_filename(item)
<1>1. NameWidth \in Nat \ {0} /\ ExtWidth \in Nat \ {0}
  BY SizesAssumption
<1>2. item.filename \in [1 .. NameWidth -> Chars] /\ item.ext \in [1 .. ExtWidth -> Chars]
  BY DEF fat_directory_item, Chars
<1>3. l \in Seq(Chars) /\ Len(l) = n /\ \A i \in 1 .. n : l[i] = item.filename[i]
  BY <1>1, <1>2, ProperString
<1>4. e \in Seq(Chars) /\ Len(e) = m /\ \A i \in 1 .. m : e[i] = item.ext[i]
  BY <1>1, <1>2, ProperString
<1>5. d \in Seq(Chars) /\ Len(d) = 1 /\ d[1] = Dot
  BY DEF Chars, Dot
<1>6. item.ext[1] \in {0, Blank} <=> m = 0
  BY <1>1, <1>2 DEF Padded
<1>7. full = l \o (IF m = 0 THEN <<>> ELSE r)
  BY <1>6, Zenon DEF fat16_get_full_relative_filename
<1> HIDE DEF l, d, e, full
<1>8. CASE m = 0
  <2>1. full = l
    BY <1>3, <1>7, <1>8, ConcatEmptySeq
  <2> QED
    BY <1>3, <1>8, <2>1 DEF FullName, full
<1>9. CASE m # 0
  <2>1. d \in Seq(Chars) /\ e \in Seq(Chars)
    BY <1>4, <1>5
  <2>2. /\ r \in Seq(Chars) /\ Len(r) = Len(d) + Len(e)
        /\ \A i \in 1 .. Len(d) : r[i] = d[i]
        /\ \A i \in 1 .. Len(e) : r[Len(d) + i] = e[i]
    BY <2>1, Joined
  <2> HIDE DEF r
  <2>3. Len(r) = m + 1 /\ r[1] = Dot /\ \A i \in 1 .. m : r[1 + i] = item.ext[i]
    BY <1>4, <1>5, <2>2
  <2>4. l \in Seq(Chars) /\ r \in Seq(Chars) /\ full = l \o r
    BY <1>3, <1>7, <1>9, <2>2
  <2>5. /\ full \in Seq(Chars) /\ Len(full) = Len(l) + Len(r)
        /\ \A i \in 1 .. Len(l) : full[i] = l[i]
        /\ \A i \in 1 .. Len(r) : full[Len(l) + i] = r[i]
    BY <2>4, Joined
  <2>6. Len(full) = n + (m + 1) /\ \A i \in 1 .. n : full[i] = item.filename[i]
    BY <1>3, <2>3, <2>5
  <2>7. full[n + 1] = Dot
    BY <1>3, <2>3, <2>5
  <2>8. \A i \in 1 .. m : full[n + 1 + i] = item.ext[i]
    <3> SUFFICES ASSUME NEW i \in 1 .. m PROVE full[n + 1 + i] = item.ext[i]
      OBVIOUS
    <3>1. 1 + i \in 1 .. m + 1 /\ n + (1 + i) = n + 1 + i
      OBVIOUS
    <3>2. full[n + (1 + i)] = r[1 + i]
      BY <1>3, <2>3, <2>5, <3>1
    <3> QED
      BY <2>3, <3>1, <3>2
  <2> QED
    BY <1>9, <2>5, <2>6, <2>7, <2>8 DEF FullName, full
<1> QED
  BY <1>8, <1>9

-----------------------------------------------------------------------------
toupper(c) == IF c \in 97 .. 122 THEN c - 32 ELSE c

\* Letters that differ in case only.
LEMMA SameLetter ==
    ASSUME NEW c \in Chars, NEW x \in Chars, c \notin 97 .. 122
    PROVE  tolower(c) = tolower(x) <=> c = toupper(x)
BY DEF Chars, tolower, toupper

\* Characters that are not letters.
LEMMA NoLetter ==
    ASSUME NEW c \in Chars, NEW x \in Chars, c \in {Dot, DeletedMark}
    PROVE  tolower(c) = tolower(x) <=> c = x
BY DEF Chars, tolower, Dot, DeletedMark

\* What an upper case letter is not.
LEMMA UpperStays ==
    ASSUME NEW x \in Chars
    PROVE  /\ toupper(x) \notin 97 .. 122
           /\ x # 0 /\ x # Blank => toupper(x) # 0 /\ toupper(x) # Blank
           /\ x # Dot <=> toupper(x) # Dot
           /\ x # DeletedMark <=> toupper(x) # DeletedMark
BY DEF Chars, toupper, Dot, Blank, DeletedMark

\* istrncmp compares whole strings that are shorter than n and have no zero in them.
LEMMA Compares ==
    ASSUME NEW s \in Seq(Chars), NEW t \in Seq(Chars), NEW n \in Nat, Len(s) < n,
           \A i \in 1 .. Len(s) : s[i] # 0, \A i \in 1 .. Len(t) : t[i] # 0
    PROVE  istrncmp(s, t, n) <=> Len(s) = Len(t) /\ \A i \in 1 .. Len(s) : tolower(s[i]) = tolower(t[i])
<1>0. Len(s) \in Nat /\ Len(t) \in Nat
  OBVIOUS
<1>1. \A i \in 1 .. Len(s) : s[i] \in Chars /\ CharAt(s, i) = s[i]
  BY <1>0 DEF CharAt
<1>2. \A i \in 1 .. Len(t) : t[i] \in Chars /\ CharAt(t, i) = t[i]
  BY <1>0 DEF CharAt
<1>3. \A c \in Chars : c # 0 => tolower(c) # 0
  BY DEF tolower, Chars
<1>4. tolower(0) = 0
  BY DEF tolower
<1>5. \A i \in Nat : (i > Len(s) => CharAt(s, i) = 0) /\ (i > Len(t) => CharAt(t, i) = 0)
  BY <1>0 DEF CharAt
<1>6. ASSUME istrncmp(s, t, n)
      PROVE  Len(s) = Len(t) /\ \A i \in 1 .. Len(s) : tolower(s[i]) = tolower(t[i])
  <2>1. \A i \in 1 .. Len(s) + 1 : tolower(CharAt(s, i)) = tolower(CharAt(t, i))
    BY <1>0, <1>6 DEF istrncmp
  <2>2. ~(Len(t) < Len(s))
    <3> SUFFICES ASSUME Len(t) < Len(s) PROVE FALSE
      OBVIOUS
    <3>1. tolower(CharAt(s, Len(s))) = tolower(CharAt(t, Len(s))) /\ Len(s) \in 1 .. Len(s)
      BY <1>0, <2>1
    <3>2. CharAt(t, Len(s)) = 0 /\ CharAt(s, Len(s)) = s[Len(s)] /\ s[Len(s)] \in Chars /\ s[Len(s)] # 0
      BY <1>0, <1>1, <1>5, <3>1
    <3> QED
      BY <1>3, <1>4, <3>1, <3>2
  <2>3. ~(Len(s) < Len(t))
    <3> SUFFICES ASSUME Len(s) < Len(t) PROVE FALSE
      OBVIOUS
    <3> DEFINE i == Len(s) + 1
    <3>1. i \in 1 .. Len(s) + 1 /\ i \in 1 .. Len(t) /\ i > Len(s) /\ i \in Nat
      BY <1>0
    <3> HIDE DEF i
    <3>2. tolower(CharAt(s, i)) = tolower(CharAt(t, i))
      BY <2>1, <3>1
    <3>3. CharAt(s, i) = 0 /\ CharAt(t, i) = t[i] /\ t[i] \in Chars /\ t[i] # 0
      BY <1>2, <1>5, <3>1
    <3> QED
      BY <1>3, <1>4, <3>2, <3>3
  <2>4. Len(s) = Len(t)
    BY <1>0, <2>2, <2>3
  <2>5. \A i \in 1 .. Len(s) : tolower(s[i]) = tolower(t[i])
    <3> SUFFICES ASSUME NEW i \in 1 .. Len(s) PROVE tolower(s[i]) = tolower(t[i])
      OBVIOUS
    <3>1. i \in 1 .. Len(s) + 1 /\ i \in 1 .. Len(t)
      BY <1>0, <2>4
    <3>2. tolower(CharAt(s, i)) = tolower(CharAt(t, i)) /\ CharAt(s, i) = s[i] /\ CharAt(t, i) = t[i]
      BY <1>1, <1>2, <2>1, <3>1
    <3> QED
      BY <3>2
  <2> QED
    BY <2>4, <2>5
<1>7. ASSUME Len(s) = Len(t), \A i \in 1 .. Len(s) : tolower(s[i]) = tolower(t[i])
      PROVE  istrncmp(s, t, n)
  <2> SUFFICES ASSUME NEW i \in 1 .. n, i <= Len(s) + 1
               PROVE  tolower(CharAt(s, i)) = tolower(CharAt(t, i))
    BY DEF istrncmp
  <2>1. CASE i <= Len(s)
    <3>1. i \in 1 .. Len(s) /\ i \in 1 .. Len(t)
      BY <1>0, <1>7, <2>1
    <3>2. tolower(s[i]) = tolower(t[i]) /\ CharAt(s, i) = s[i] /\ CharAt(t, i) = t[i]
      BY <1>1, <1>2, <1>7, <3>1
    <3> QED
      BY <3>2
  <2>2. CASE i > Len(s)
    BY <1>5, <1>7, <2>2
  <2> QED
    BY <1>0, <2>1, <2>2
<1> QED
  BY <1>6, <1>7

\* The stem of a name of which n characters lie before the dot, and its extension.
LEMMA Slices ==
    ASSUME NEW name \in Seq(Chars), NEW n \in 1 .. Len(name)
    PROVE  LET stem == SubSeq(name, 1, n)
               ext == SubSeq(name, n + 2, Len(name))
           IN  /\ stem \in Seq(Chars) /\ Len(stem) = n /\ \A i \in 1 .. n : stem[i] = name[i]
               /\ n = Len(name) => ext = <<>> /\ Len(ext) = 0
               /\ n # Len(name) => /\ ext \in Seq(Chars) /\ Len(ext) = Len(name) - n - 1
                                   /\ \A i \in 1 .. Len(ext) : ext[i] = name[n + 1 + i]
<1> DEFINE stem == SubSeq(name, 1, n)
           ext == SubSeq(name, n + 2, Len(name))
<1>0. Len(name) \in Nat
  OBVIOUS
<1>1. stem \in Seq(Chars) /\ Len(stem) = n /\ \A i \in 1 .. n : stem[i] = name[i]
  <2>1. 1 \in 1 .. Len(name) + 1 /\ n \in 1 - 1 .. Len(name)
    BY <1>0
  <2>2. stem \in Seq(Chars) /\ Len(stem) = n - 1 + 1 /\ \A i \in 1 .. n - 1 + 1 : stem[i] = name[1 + i - 1]
    BY <2>1, SubSeqProperties
  <2> HIDE DEF stem
  <2>3. n - 1 + 1 = n /\ \A i \in 1 .. n : 1 + i - 1 = i
    OBVIOUS
  <2> QED
    BY <2>2, <2>3
<1>2. n = Len(name) => ext = <<>> /\ Len(ext) = 0
  <2>1. n = Len(name) => n + 2 > Len(name)
    BY <1>0
  <2>2. n + 2 \in Int /\ Len(name) \in Int
    BY <1>0
  <2> QED
    BY <1>0, <2>1, <2>2, SubSeqEmpty
<1>3. ASSUME n # Len(name)
      PROVE  /\ ext \in Seq(Chars) /\ Len(ext) = Len(name) - n - 1
             /\ \A i \in 1 .. Len(ext) : ext[i] = name[n + 1 + i]
  <2> DEFINE m == n + 2
  <2>1. m \in 1 .. Len(name) + 1 /\ Len(name) \in m - 1 .. Len(name) /\ Len(name) - m + 1 = Len(name) - n - 1
    BY <1>0, <1>3
  <2>2. \A i \in Nat : m + i - 1 = n + 1 + i
    BY <1>0
  <2> HIDE DEF m
  <2>3. /\ SubSeq(name, m, Len(name)) \in Seq(Chars) /\ Len(SubSeq(name, m, Len(name))) = Len(name) - m + 1
        /\ \A i \in 1 .. Len(name) - m + 1 : SubSeq(name, m, Len(name))[i] = name[m + i - 1]
    BY <2>1, SubSeqProperties
  <2>4. ext = SubSeq(name, m, Len(name))
    BY DEF m
  <2> HIDE DEF ext
  <2> QED
    BY <2>1, <2>2, <2>3, <2>4
<1> QED
  BY <1>1, <1>2, <1>3, Zenon

\* The entry's name is n characters of the name and, unless m is 0, its m characters behind
\* the dot.
Spelled(e, name, n, m) ==
    /\ n \in 1 .. NameWidth /\ m \in 0 .. ExtWidth
    /\ Len(name) = n + (IF m = 0 THEN 0 ELSE m + 1)
    /\ \A i \in 1 .. n : name[i] # Dot /\ e.filename[i] = toupper(name[i])
    /\ \A i \in n + 1 .. NameWidth : e.filename[i] = Blank
    /\ m # 0 => name[n + 1] = Dot /\ \A i \in 1 .. m : e.ext[i] = toupper(name[n + 1 + i])
    /\ \A i \in m + 1 .. ExtWidth : e.ext[i] = Blank

\* A field that stores a name, character by character.
LEMMA StoredIs ==
    ASSUME NEW w \in Nat, NEW field \in [1 .. w -> Chars], NEW s \in Seq(Chars)
    PROVE  Stored(s, w) = field <=>
             /\ \A i \in 1 .. w : i <= Len(s) => field[i] = toupper(s[i])
             /\ \A i \in 1 .. w : i > Len(s) => field[i] = Blank
<1>1. Len(s) \in Nat /\ DOMAIN field = 1 .. w
  OBVIOUS
<1>2. Stored(s, w) = [i \in 1 .. w |-> IF i > Len(s) THEN Blank ELSE toupper(s[i])]
  BY DEF Stored, toupper
<1> HIDE DEF toupper
<1> QED
  BY <1>1, <1>2

\* HasName, character by character.
LEMMA HasNameIs ==
    ASSUME NEW e \in fat_directory_item, NEW name \in Names
    PROVE  HasName(e, name) <=> \E n \in 1 .. NameWidth, m \in 0 .. ExtWidth : Spelled(e, name, n, m)
<1> DEFINE stem(n) == SubSeq(name, 1, n)
           ext(n) == SubSeq(name, n + 2, Len(name))
<1>0. NameWidth \in Nat \ {0} /\ ExtWidth \in Nat \ {0}
  BY SizesAssumption
<1>1. e.filename \in [1 .. NameWidth -> Chars] /\ e.ext \in [1 .. ExtWidth -> Chars]
  BY DEF fat_directory_item, Chars
<1>2. name \in Seq(Chars) /\ Len(name) \in Nat \ {0}
  BY NameType
<1>3. \A n \in 1 .. Len(name) :
        /\ stem(n) \in Seq(Chars) /\ Len(stem(n)) = n /\ \A i \in 1 .. n : stem(n)[i] = name[i]
        /\ n = Len(name) => ext(n) = <<>> /\ Len(ext(n)) = 0
        /\ n # Len(name) => /\ ext(n) \in Seq(Chars) /\ Len(ext(n)) = Len(name) - n - 1
                            /\ \A i \in 1 .. Len(ext(n)) : ext(n)[i] = name[n + 1 + i]
  BY <1>2, Slices
<1>4. HasName(e, name) <=>
        \E n \in 1 .. Len(name) :
            /\ \A i \in 1 .. n : stem(n)[i] # Dot
            /\ n = Len(name) \/ (name[n + 1] = Dot /\ ext(n) # <<>>)
            /\ n <= NameWidth /\ Stored(stem(n), NameWidth) = e.filename
            /\ Len(ext(n)) <= ExtWidth /\ Stored(ext(n), ExtWidth) = e.ext
  BY Zenon DEF HasName
<1> HIDE DEF stem, ext
<1>5. \A n \in 1 .. Len(name) : ext(n) \in Seq(Chars) /\ Len(ext(n)) \in Nat
  <2>1. <<>> \in Seq(Chars)
    OBVIOUS
  <2>2. \A n \in 1 .. Len(name) : ext(n) \in Seq(Chars)
    BY <1>3, <2>1
  <2> QED
    BY <2>2
<1>6. ASSUME NEW n \in 1 .. Len(name)
       PROVE  Stored(ext(n), ExtWidth) = e.ext <=>
                /\ \A i \in 1 .. ExtWidth : i <= Len(ext(n)) => e.ext[i] = toupper(ext(n)[i])
                /\ \A i \in 1 .. ExtWidth : i > Len(ext(n)) => e.ext[i] = Blank
  <2> DEFINE x == ext(n)
             field == e.ext
  <2>1. x \in Seq(Chars) /\ ExtWidth \in Nat /\ field \in [1 .. ExtWidth -> Chars]
    BY <1>0, <1>1, <1>5
  <2> HIDE DEF x, field, toupper
  <2>2. Stored(x, ExtWidth) = field <=>
                /\ \A i \in 1 .. ExtWidth : i <= Len(x) => field[i] = toupper(x[i])
                /\ \A i \in 1 .. ExtWidth : i > Len(x) => field[i] = Blank
    BY <2>1, StoredIs
  <2> QED
    BY <2>2 DEF x, field
<1>7. ASSUME NEW n \in 1 .. Len(name), n <= NameWidth
      PROVE  Stored(stem(n), NameWidth) = e.filename <=>
               /\ \A i \in 1 .. n : e.filename[i] = toupper(name[i])
               /\ \A i \in n + 1 .. NameWidth : e.filename[i] = Blank
  <2>1. stem(n) \in Seq(Chars) /\ Len(stem(n)) = n /\ \A i \in 1 .. n : stem(n)[i] = name[i]
    BY <1>3
  <2>2. Stored(stem(n), NameWidth) = e.filename <=>
          /\ \A i \in 1 .. NameWidth : i <= Len(stem(n)) => e.filename[i] = toupper(stem(n)[i])
          /\ \A i \in 1 .. NameWidth : i > Len(stem(n)) => e.filename[i] = Blank
    BY <1>0, <1>1, <2>1, StoredIs
  <2>3. (\A i \in 1 .. NameWidth : i <= n => i \in 1 .. n) /\ (\A i \in 1 .. NameWidth : i > n => i \in n + 1 .. NameWidth)
    BY <1>0
  <2>4. (\A i \in 1 .. n : i \in 1 .. NameWidth /\ i <= n) /\ (\A i \in n + 1 .. NameWidth : i \in 1 .. NameWidth /\ i > n)
    BY <1>0, <1>7
  <2> HIDE DEF toupper
  <2> QED
    BY <2>1, <2>2, <2>3, <2>4
<1>8. ASSUME NEW n \in 1 .. Len(name), n # Len(name), NEW m \in 0 .. ExtWidth, m = Len(ext(n))
      PROVE  Stored(ext(n), ExtWidth) = e.ext <=>
               /\ \A i \in 1 .. m : e.ext[i] = toupper(name[n + 1 + i])
               /\ \A i \in m + 1 .. ExtWidth : e.ext[i] = Blank
  <2>1. ext(n) \in Seq(Chars) /\ \A i \in 1 .. m : ext(n)[i] = name[n + 1 + i]
    BY <1>3, <1>8
  <2>2. Stored(ext(n), ExtWidth) = e.ext <=>
          /\ \A i \in 1 .. ExtWidth : i <= m => e.ext[i] = toupper(ext(n)[i])
          /\ \A i \in 1 .. ExtWidth : i > m => e.ext[i] = Blank
    BY <1>8, <1>6, Zenon
  <2>3. (\A i \in 1 .. ExtWidth : i <= m => i \in 1 .. m) /\ (\A i \in 1 .. ExtWidth : i > m => i \in m + 1 .. ExtWidth)
    BY <1>0
  <2>4. (\A i \in 1 .. m : i \in 1 .. ExtWidth /\ i <= m) /\ (\A i \in m + 1 .. ExtWidth : i \in 1 .. ExtWidth /\ i > m)
    BY <1>0
  <2> HIDE DEF toupper
  <2> QED
    BY <2>1, <2>2, <2>3, <2>4
<1>9. ASSUME NEW n \in 1 .. Len(name), n = Len(name)
      PROVE  Stored(ext(n), ExtWidth) = e.ext <=> \A i \in 0 + 1 .. ExtWidth : e.ext[i] = Blank
  <2>1. ext(n) \in Seq(Chars) /\ Len(ext(n)) = 0
    BY <1>3, <1>5, <1>9
  <2>2. Stored(ext(n), ExtWidth) = e.ext <=>
          /\ \A i \in 1 .. ExtWidth : i <= Len(ext(n)) => e.ext[i] = toupper(ext(n)[i])
          /\ \A i \in 1 .. ExtWidth : i > Len(ext(n)) => e.ext[i] = Blank
    BY <1>6
  <2> HIDE DEF toupper
  <2> QED
    BY <1>0, <2>1, <2>2
<1> HIDE DEF toupper
<1>10. ASSUME HasName(e, name)
      PROVE  \E n \in 1 .. NameWidth, m \in 0 .. ExtWidth : Spelled(e, name, n, m)
  <2>1. PICK n \in 1 .. Len(name) :
            /\ \A i \in 1 .. n : stem(n)[i] # Dot
            /\ n = Len(name) \/ (name[n + 1] = Dot /\ ext(n) # <<>>)
            /\ n <= NameWidth /\ Stored(stem(n), NameWidth) = e.filename
            /\ Len(ext(n)) <= ExtWidth /\ Stored(ext(n), ExtWidth) = e.ext
    BY <1>4, <1>10
  <2>2. n \in 1 .. NameWidth /\ \A i \in 1 .. n : name[i] # Dot
    <3>1. n \in 1 .. NameWidth
      BY <1>0, <2>1
    <3>2. \A i \in 1 .. n : stem(n)[i] = name[i]
      BY <1>3
    <3> QED
      BY <2>1, <3>1, <3>2
  <2>3. /\ \A i \in 1 .. n : e.filename[i] = toupper(name[i])
        /\ \A i \in n + 1 .. NameWidth : e.filename[i] = Blank
    BY <1>7, <2>1
  <2>4. CASE n = Len(name)
    <3>1. \A i \in 0 + 1 .. ExtWidth : e.ext[i] = Blank
      BY <1>9, <2>1, <2>4
    <3>2. 0 \in 0 .. ExtWidth /\ Len(name) = n + 0
      BY <1>0, <2>4
    <3>3. Spelled(e, name, n, 0)
      BY <2>2, <2>3, <3>1, <3>2 DEF Spelled
    <3> QED
      BY <2>2, <3>2, <3>3
  <2>5. CASE n # Len(name)
    <3> DEFINE m == Len(ext(n))
    <3>1. m = Len(name) - n - 1 /\ m \in Nat /\ m <= ExtWidth /\ name[n + 1] = Dot /\ ext(n) # <<>>
      BY <1>3, <1>5, <2>1, <2>5
    <3>2. m # 0
      BY <1>5, <3>1, EmptySeq
    <3>3. m \in 0 .. ExtWidth /\ Len(name) = n + (m + 1)
      <4> HIDE DEF m
      <4> QED
        BY <1>0, <1>2, <3>1
    <3>4. /\ \A i \in 1 .. m : e.ext[i] = toupper(name[n + 1 + i])
          /\ \A i \in m + 1 .. ExtWidth : e.ext[i] = Blank
      BY <1>8, <2>1, <2>5, <3>3
    <3> HIDE DEF m
    <3>5. Spelled(e, name, n, m)
      BY <2>2, <2>3, <3>1, <3>2, <3>3, <3>4 DEF Spelled
    <3> QED
      BY <2>2, <3>3, <3>5
  <2> QED
    BY <2>4, <2>5
<1>11. ASSUME NEW n \in 1 .. NameWidth, NEW m \in 0 .. ExtWidth, Spelled(e, name, n, m)
       PROVE  HasName(e, name)
  <2>1. /\ Len(name) = n + (IF m = 0 THEN 0 ELSE m + 1)
        /\ \A i \in 1 .. n : name[i] # Dot /\ e.filename[i] = toupper(name[i])
        /\ \A i \in n + 1 .. NameWidth : e.filename[i] = Blank
        /\ m # 0 => name[n + 1] = Dot /\ \A i \in 1 .. m : e.ext[i] = toupper(name[n + 1 + i])
        /\ \A i \in m + 1 .. ExtWidth : e.ext[i] = Blank
    BY <1>11 DEF Spelled
  <2>2. n \in 1 .. Len(name) /\ n <= NameWidth /\ (m = 0 <=> n = Len(name)) /\ (m # 0 => Len(name) - n - 1 = m)
    BY <1>0, <1>2, <2>1
  <2>3. Stored(stem(n), NameWidth) = e.filename
    BY <1>7, <2>1, <2>2
  <2>4. \A i \in 1 .. n : stem(n)[i] # Dot
    BY <1>3, <2>1, <2>2
  <2>5. Len(ext(n)) = m
    BY <1>3, <2>2
  <2>6. m # 0 => ext(n) # <<>>
    BY <2>5
  <2>7. Len(ext(n)) <= ExtWidth
    BY <1>0, <2>5
  <2>8. Stored(ext(n), ExtWidth) = e.ext
    <3>1. CASE m = 0
      BY <1>9, <2>1, <2>2, <3>1
    <3>2. CASE m # 0
      <4>1. n # Len(name) /\ m = Len(ext(n))
        BY <2>2, <2>5, <3>2
      <4> QED
        BY <1>8, <2>1, <2>2, <3>2, <4>1
    <3> QED
      BY <3>1, <3>2
  <2>9. n = Len(name) \/ (name[n + 1] = Dot /\ ext(n) # <<>>)
    BY <2>1, <2>2, <2>6
  <2> QED
    BY <1>4, <2>2, <2>3, <2>4, <2>7, <2>8, <2>9
<1> QED
  BY <1>10, <1>11

-----------------------------------------------------------------------------
Matches(e, name) == istrncmp(fat16_get_full_relative_filename(e), name, MAEROS_MAX_PATH)

\* A full name has no zero in it and is shorter than what istrncmp compares.
LEMMA FullCompares ==
    ASSUME NEW e \in fat_directory_item, NEW name \in Names, NEW n \in 1 .. NameWidth, NEW m \in 0 .. ExtWidth,
           Padded(e.filename, n), Padded(e.ext, m)
    PROVE  LET s == fat16_get_full_relative_filename(e)
           IN  /\ FullName(s, e, n, m)
               /\ \A i \in 1 .. n : e.filename[i] \in Chars /\ e.filename[i] \notin {0, Blank} \cup 97 .. 122
               /\ \A i \in 1 .. m : e.ext[i] \in Chars /\ e.ext[i] \notin {0, Blank} \cup 97 .. 122
               /\ Matches(e, name) <=> Len(s) = Len(name) /\ \A i \in 1 .. Len(s) : tolower(s[i]) = tolower(name[i])
<1> DEFINE s == fat16_get_full_relative_filename(e)
<1>0. NameWidth \in Nat \ {0} /\ ExtWidth \in Nat \ {0} /\ MAEROS_MAX_PATH \in Nat
  BY SizesAssumption
<1>1. e.filename \in [1 .. NameWidth -> Chars] /\ e.ext \in [1 .. ExtWidth -> Chars]
  BY DEF fat_directory_item, Chars
<1>2. FullName(s, e, n, m)
  <2>1. n \in 0 .. NameWidth
    OBVIOUS
  <2> QED
    BY <2>1, FullRelative
<1>3. \A i \in 1 .. n : e.filename[i] \in Chars /\ e.filename[i] \notin {0, Blank} \cup 97 .. 122
  <2>1. \A i \in 1 .. n : i \in 1 .. NameWidth /\ i \in DOMAIN e.filename /\ i <= n
    BY <1>0, <1>1
  <2> QED
    BY <1>1, <2>1 DEF Padded
<1>4. \A i \in 1 .. m : e.ext[i] \in Chars /\ e.ext[i] \notin {0, Blank} \cup 97 .. 122
  <2>1. \A i \in 1 .. m : i \in 1 .. ExtWidth /\ i \in DOMAIN e.ext /\ i <= m
    BY <1>0, <1>1
  <2> QED
    BY <1>1, <2>1 DEF Padded
<1> HIDE DEF s
<1>5. s \in Seq(Chars) /\ Len(s) \in Nat /\ Len(s) = n + (IF m = 0 THEN 0 ELSE m + 1)
  BY <1>2 DEF FullName
<1>6. \A i \in 1 .. Len(s) : s[i] # 0
  <2> SUFFICES ASSUME NEW i \in 1 .. Len(s) PROVE s[i] # 0
    OBVIOUS
  <2>1. CASE i <= n
    <3>1. i \in 1 .. n /\ s[i] = e.filename[i]
      BY <1>2, <1>5, <2>1 DEF FullName
    <3> QED
      BY <1>3, <3>1
  <2>2. CASE i = n + 1
    <3>1. m # 0 /\ s[i] = Dot
      BY <1>2, <1>5, <2>2 DEF FullName
    <3> QED
      BY <3>1 DEF Dot
  <2>3. CASE i > n + 1
    <3> DEFINE k == i - (n + 1)
    <3>1. k \in 1 .. m /\ m # 0 /\ n + 1 + k = i
      BY <1>5, <2>3
    <3> HIDE DEF k
    <3>2. s[n + 1 + k] = e.ext[k]
      BY <1>2, <3>1 DEF FullName
    <3> QED
      BY <1>4, <3>1, <3>2
  <2> QED
    BY <1>5, <2>1, <2>2, <2>3
<1>7. Len(s) < MAEROS_MAX_PATH
  BY <1>0, <1>5, PathAssumption
<1>8. name \in Seq(Chars) /\ \A i \in 1 .. Len(name) : name[i] # 0
  BY NameType
<1>9. Matches(e, name) <=> Len(s) = Len(name) /\ \A i \in 1 .. Len(s) : tolower(s[i]) = tolower(name[i])
  <2>1. istrncmp(s, name, MAEROS_MAX_PATH) <=> Len(s) = Len(name) /\ \A i \in 1 .. Len(s) : tolower(s[i]) = tolower(name[i])
    BY <1>0, <1>5, <1>6, <1>7, <1>8, Compares
  <2> QED
    BY <2>1, Zenon DEF Matches, s
<1> QED
  BY <1>2, <1>3, <1>4, <1>9, Zenon DEF s

\* The code finds a name wherever it is stored, in any case.
LEMMA NamedMatches ==
    ASSUME NEW e \in fat_directory_item, NEW name \in Names, HasName(e, name)
    PROVE  Matches(e, name)
<1> DEFINE s == fat16_get_full_relative_filename(e)
<1>0. NameWidth \in Nat \ {0} /\ ExtWidth \in Nat \ {0}
  BY SizesAssumption
<1>1. e.filename \in [1 .. NameWidth -> Chars] /\ e.ext \in [1 .. ExtWidth -> Chars]
  BY DEF fat_directory_item, Chars
<1>2. name \in Seq(Chars) /\ Len(name) \in Nat \ {0}
      /\ \A i \in 1 .. Len(name) : name[i] \in Chars /\ name[i] # 0 /\ name[i] # Blank
  BY NameType
<1>3. ASSUME NEW n \in 1 .. NameWidth, NEW m \in 0 .. ExtWidth, Spelled(e, name, n, m)
      PROVE  Matches(e, name)
  <2>1. /\ Len(name) = n + (IF m = 0 THEN 0 ELSE m + 1)
        /\ \A i \in 1 .. n : name[i] # Dot /\ e.filename[i] = toupper(name[i])
        /\ \A i \in n + 1 .. NameWidth : e.filename[i] = Blank
        /\ m # 0 => name[n + 1] = Dot /\ \A i \in 1 .. m : e.ext[i] = toupper(name[n + 1 + i])
        /\ \A i \in m + 1 .. ExtWidth : e.ext[i] = Blank
    BY <1>3 DEF Spelled
  <2>2. /\ \A i \in 1 .. n : i \in 1 .. Len(name)
        /\ m # 0 => \A i \in 1 .. m : n + 1 + i \in 1 .. Len(name)
    <3>1. Len(name) = n + (IF m = 0 THEN 0 ELSE m + 1)
      BY <2>1
    <3> QED
      BY <3>1
  <2>3. \A i \in 1 .. Len(name) : toupper(name[i]) \notin {0, Blank} \cup 97 .. 122
    <3> SUFFICES ASSUME NEW i \in 1 .. Len(name) PROVE toupper(name[i]) \notin {0, Blank} \cup 97 .. 122
      OBVIOUS
    <3>1. name[i] \in Chars /\ name[i] # 0 /\ name[i] # Blank
      BY <1>2
    <3>2. toupper(name[i]) \notin 97 .. 122 /\ toupper(name[i]) # 0 /\ toupper(name[i]) # Blank
      BY <3>1, UpperStays
    <3> QED
      BY <3>2
  <2>4. Padded(e.filename, n)
    <3> SUFFICES ASSUME NEW i \in DOMAIN e.filename
                 PROVE  IF i <= n THEN e.filename[i] \notin {0, Blank} \cup 97 .. 122 ELSE e.filename[i] = Blank
      BY DEF Padded
    <3>1. i \in 1 .. NameWidth
      BY <1>1
    <3>2. i <= n => i \in 1 .. n
      BY <3>1
    <3>3. ~(i <= n) => i \in n + 1 .. NameWidth
      BY <1>0, <3>1
    <3> QED
      BY <2>1, <2>2, <2>3, <3>2, <3>3, ZenonT(30)
  <2>5. Padded(e.ext, m)
    <3> SUFFICES ASSUME NEW i \in DOMAIN e.ext
                 PROVE  IF i <= m THEN e.ext[i] \notin {0, Blank} \cup 97 .. 122 ELSE e.ext[i] = Blank
      BY DEF Padded
    <3>1. i \in 1 .. ExtWidth
      BY <1>1
    <3>2. i <= m => i \in 1 .. m /\ m # 0
      BY <3>1
    <3>3. ~(i <= m) => i \in m + 1 .. ExtWidth
      BY <1>0, <3>1
    <3>4. i <= m => e.ext[i] = toupper(name[n + 1 + i]) /\ n + 1 + i \in 1 .. Len(name)
      BY <2>1, <2>2, <3>2
    <3>5. i <= m => e.ext[i] \notin {0, Blank} \cup 97 .. 122
      BY <2>3, <3>4
    <3> QED
      BY <2>1, <3>3, <3>5
  <2>6. /\ FullName(s, e, n, m)
        /\ \A i \in 1 .. n : e.filename[i] \in Chars /\ e.filename[i] \notin {0, Blank} \cup 97 .. 122
        /\ \A i \in 1 .. m : e.ext[i] \in Chars /\ e.ext[i] \notin {0, Blank} \cup 97 .. 122
        /\ Matches(e, name) <=> Len(s) = Len(name) /\ \A i \in 1 .. Len(s) : tolower(s[i]) = tolower(name[i])
    BY <2>4, <2>5, FullCompares, Zenon
  <2> HIDE DEF s
  <2>7. Len(s) = Len(name)
    BY <2>1, <2>6 DEF FullName
  <2>8. ASSUME NEW i \in 1 .. Len(s) PROVE tolower(s[i]) = tolower(name[i])
    <3>0. Len(s) = n + (IF m = 0 THEN 0 ELSE m + 1) /\ name[i] \in Chars
      BY <1>2, <2>1, <2>7
    <3>1. CASE i <= n
      <4>1. i \in 1 .. n
        BY <3>1
      <4>2. s[i] = e.filename[i]
        BY <2>6, <4>1 DEF FullName
      <4>3. e.filename[i] = toupper(name[i]) /\ e.filename[i] \in Chars /\ e.filename[i] \notin 97 .. 122
        BY <2>1, <2>6, <4>1
      <4>4. tolower(e.filename[i]) = tolower(name[i])
        BY <3>0, <4>3, SameLetter
      <4> QED
        BY <4>2, <4>4
    <3>2. CASE i = n + 1
      <4>1. m # 0
        BY <3>0, <3>2
      <4> QED
        BY <2>1, <2>6, <3>2, <4>1 DEF FullName
    <3>3. CASE i > n + 1
      <4> DEFINE k == i - (n + 1)
      <4>1. k \in 1 .. m /\ m # 0 /\ n + 1 + k = i
        BY <3>0, <3>3
      <4> HIDE DEF k
      <4>2. s[n + 1 + k] = e.ext[k]
        BY <2>6, <4>1 DEF FullName
      <4>3. e.ext[k] = toupper(name[i]) /\ e.ext[k] \in Chars /\ e.ext[k] \notin 97 .. 122
        BY <2>1, <2>6, <4>1
      <4>4. tolower(e.ext[k]) = tolower(name[i])
        BY <3>0, <4>3, SameLetter
      <4> QED
        BY <4>1, <4>2, <4>4
    <3> QED
      BY <3>0, <3>1, <3>2, <3>3
  <2> QED
    BY <2>6, <2>7, <2>8
<1> QED
  BY <1>3, HasNameIs

\* The comparison of the code finds a name exactly where it is stored: letters in any case,
\* the dot, the padding and the zero that ends a string all come out right.
LEMMA MatchesIs ==
    ASSUME NEW e \in fat_directory_item, ShortName(e), e.filename[1] # Dot, NEW name \in Names
    PROVE  Matches(e, name) <=> HasName(e, name)
<1> DEFINE s == fat16_get_full_relative_filename(e)
<1>0. NameWidth \in Nat \ {0} /\ ExtWidth \in Nat \ {0}
  BY SizesAssumption
<1>1. e.filename \in [1 .. NameWidth -> Chars] /\ e.ext \in [1 .. ExtWidth -> Chars]
  BY DEF fat_directory_item, Chars
<1>2. name \in Seq(Chars) /\ Len(name) \in Nat \ {0}
      /\ \A i \in 1 .. Len(name) : name[i] \in Chars /\ name[i] # 0 /\ name[i] # Blank
  BY NameType
<1>3. ASSUME Matches(e, name) PROVE \E n \in 1 .. NameWidth, m \in 0 .. ExtWidth : Spelled(e, name, n, m)
  <2>1. PICK n \in 1 .. NameWidth : Padded(e.filename, n)
    BY DEF ShortName
  <2>2. PICK m \in 0 .. ExtWidth : Padded(e.ext, m)
    BY DEF ShortName
  <2>3. /\ FullName(s, e, n, m)
        /\ \A i \in 1 .. n : e.filename[i] \in Chars /\ e.filename[i] \notin {0, Blank} \cup 97 .. 122
        /\ \A i \in 1 .. m : e.ext[i] \in Chars /\ e.ext[i] \notin {0, Blank} \cup 97 .. 122
        /\ Len(s) = Len(name) /\ \A i \in 1 .. Len(s) : tolower(s[i]) = tolower(name[i])
    BY <1>3, <2>1, <2>2, FullCompares, SMTT(30)
  <2> HIDE DEF s
  <2>4. Len(name) = n + (IF m = 0 THEN 0 ELSE m + 1)
    BY <2>3 DEF FullName
  <2>5. \A i \in 1 .. n : i \in 1 .. Len(name) /\ e.filename[i] = toupper(name[i])
                            /\ tolower(e.filename[i]) = tolower(name[i])
    <3> SUFFICES ASSUME NEW i \in 1 .. n
                 PROVE  i \in 1 .. Len(name) /\ e.filename[i] = toupper(name[i])
                          /\ tolower(e.filename[i]) = tolower(name[i])
      OBVIOUS
    <3>1. i \in 1 .. Len(name) /\ s[i] = e.filename[i]
      BY <1>2, <2>3, <2>4 DEF FullName
    <3>2. tolower(e.filename[i]) = tolower(name[i]) /\ e.filename[i] \in Chars /\ e.filename[i] \notin 97 .. 122
          /\ name[i] \in Chars
      BY <1>2, <2>3, <3>1
    <3>3. e.filename[i] = toupper(name[i])
      BY <3>2, SameLetter
    <3> QED
      BY <3>1, <3>2, <3>3
  <2>6. e.filename[1] # Dot
    OBVIOUS
  <2>7. \A i \in 1 .. n : name[i] # Dot
    <3> SUFFICES ASSUME NEW i \in 1 .. n PROVE name[i] # Dot
      OBVIOUS
    <3>1. i \in 1 .. NameWidth /\ e.filename[i] # Dot
      BY <1>0, <2>6 DEF ShortName
    <3>2. e.filename[i] = toupper(name[i]) /\ name[i] \in Chars
      BY <1>2, <2>5
    <3> QED
      BY <3>1, <3>2, UpperStays
  <2>8. \A i \in n + 1 .. NameWidth : e.filename[i] = Blank
    <3>1. \A i \in n + 1 .. NameWidth : i \in DOMAIN e.filename /\ ~(i <= n)
      BY <1>0, <1>1
    <3> QED
      BY <2>1, <3>1 DEF Padded
  <2>9. \A i \in m + 1 .. ExtWidth : e.ext[i] = Blank
    <3>1. \A i \in m + 1 .. ExtWidth : i \in DOMAIN e.ext /\ ~(i <= m)
      BY <1>0, <1>1
    <3> QED
      BY <2>2, <3>1 DEF Padded
  <2>10. m # 0 => name[n + 1] = Dot
    <3> SUFFICES ASSUME m # 0 PROVE name[n + 1] = Dot
      OBVIOUS
    <3>1. n + 1 \in 1 .. Len(name) /\ s[n + 1] = Dot
      BY <2>3, <2>4 DEF FullName
    <3>2. tolower(Dot) = tolower(name[n + 1]) /\ name[n + 1] \in Chars /\ Dot \in Chars
      BY <1>2, <2>3, <3>1 DEF Dot, Chars
    <3> QED
      BY <3>2, NoLetter
  <2>11. m # 0 => \A i \in 1 .. m : e.ext[i] = toupper(name[n + 1 + i])
    <3> SUFFICES ASSUME m # 0, NEW i \in 1 .. m PROVE e.ext[i] = toupper(name[n + 1 + i])
      OBVIOUS
    <3> DEFINE k == n + 1 + i
    <3>1. k \in 1 .. Len(name)
      BY <2>4
    <3>2. s[k] = e.ext[i]
      BY <2>3 DEF FullName
    <3> HIDE DEF k
    <3>3. tolower(e.ext[i]) = tolower(name[k]) /\ e.ext[i] \in Chars /\ e.ext[i] \notin 97 .. 122 /\ name[k] \in Chars
      BY <1>2, <2>3, <3>1, <3>2
    <3>4. e.ext[i] = toupper(name[k])
      BY <3>3, SameLetter
    <3> QED
      BY <3>4 DEF k
  <2>12. Spelled(e, name, n, m)
    BY <2>4, <2>5, <2>7, <2>8, <2>9, <2>10, <2>11 DEF Spelled
  <2> QED
    BY <2>12
<1>4. HasName(e, name) <=> \E n \in 1 .. NameWidth, m \in 0 .. ExtWidth : Spelled(e, name, n, m)
  BY HasNameIs
<1> QED
  BY <1>3, <1>4, NamedMatches

-----------------------------------------------------------------------------
\* An entry that has a name is no link, and the name fits it.
LEMMA NamedFitsEntry ==
    ASSUME NEW e \in fat_directory_item, NEW name \in Names, HasName(e, name)
    PROVE  e.filename[1] # Dot /\ Len(name) <= NameWidth + 1 + ExtWidth
<1>1. PICK n \in 1 .. NameWidth, m \in 0 .. ExtWidth : Spelled(e, name, n, m)
  BY HasNameIs
<1>2. /\ Len(name) = n + (IF m = 0 THEN 0 ELSE m + 1) /\ 1 \in 1 .. n
      /\ name[1] # Dot /\ e.filename[1] = toupper(name[1])
  BY <1>1 DEF Spelled
<1>3. name[1] \in Chars
  BY NameType
<1>4. toupper(name[1]) # Dot
  BY <1>2, <1>3, UpperStays
<1>5. NameWidth \in Nat /\ ExtWidth \in Nat
  BY SizesAssumption
<1>6. Len(name) <= NameWidth + 1 + ExtWidth
  <2>1. Len(name) = n + (IF m = 0 THEN 0 ELSE m + 1)
    BY <1>2
  <2> QED
    BY <1>5, <2>1
<1> QED
  BY <1>2, <1>4, <1>6

\* Fields with the same characters are the same.
LEMMA SameField ==
    ASSUME NEW w, NEW g \in [1 .. w -> Chars], NEW h \in [1 .. w -> Chars],
           \A i \in 1 .. w : g[i] = h[i]
    PROVE  g = h
<1>1. g = [i \in 1 .. w |-> g[i]] /\ h = [i \in 1 .. w |-> h[i]]
  OBVIOUS
<1>2. [i \in 1 .. w |-> g[i]] = [i \in 1 .. w |-> h[i]]
  BY Zenon
<1> QED
  BY <1>1, <1>2, Zenon

\* A name determines the fields of the entry that has it.
LEMMA NameDetermines ==
    ASSUME NEW e \in fat_directory_item, NEW f \in fat_directory_item, NEW name \in Names,
           HasName(e, name), HasName(f, name)
    PROVE  e.filename = f.filename /\ e.ext = f.ext
<1>0. NameWidth \in Nat /\ ExtWidth \in Nat
  BY SizesAssumption
<1>1. /\ e.filename \in [1 .. NameWidth -> Chars] /\ e.ext \in [1 .. ExtWidth -> Chars]
      /\ f.filename \in [1 .. NameWidth -> Chars] /\ f.ext \in [1 .. ExtWidth -> Chars]
  BY DEF fat_directory_item, Chars
<1>2. PICK n \in 1 .. NameWidth, m \in 0 .. ExtWidth : Spelled(e, name, n, m)
  BY HasNameIs
<1>3. PICK k \in 1 .. NameWidth, l \in 0 .. ExtWidth : Spelled(f, name, k, l)
  BY HasNameIs
<1>4. n \in Nat /\ m \in Nat /\ k \in Nat /\ l \in Nat
  BY <1>0
<1>5. Len(name) = n + (IF m = 0 THEN 0 ELSE m + 1) /\ Len(name) = k + (IF l = 0 THEN 0 ELSE l + 1)
  BY <1>2, <1>3 DEF Spelled
<1>6. ~(n < k)
  <2> SUFFICES ASSUME n < k PROVE FALSE
    OBVIOUS
  <2>1. m # 0 /\ n + 1 \in 1 .. k
    BY <1>4, <1>5
  <2>2. name[n + 1] = Dot
    BY <1>2, <2>1 DEF Spelled
  <2>3. name[n + 1] # Dot
    BY <1>3, <2>1 DEF Spelled
  <2> QED
    BY <2>2, <2>3
<1>7. ~(k < n)
  <2> SUFFICES ASSUME k < n PROVE FALSE
    OBVIOUS
  <2>1. l # 0 /\ k + 1 \in 1 .. n
    BY <1>4, <1>5
  <2>2. name[k + 1] = Dot
    BY <1>3, <2>1 DEF Spelled
  <2>3. name[k + 1] # Dot
    BY <1>2, <2>1 DEF Spelled
  <2> QED
    BY <2>2, <2>3
<1>8. n = k /\ m = l
  BY <1>4, <1>5, <1>6, <1>7
<1>9. e.filename = f.filename
  <2>1. ASSUME NEW i \in 1 .. NameWidth PROVE e.filename[i] = f.filename[i]
    <3>1. CASE i <= n
      <4>1. i \in 1 .. n /\ i \in 1 .. k
        BY <1>8, <3>1
      <4> QED
        BY <1>2, <1>3, <4>1 DEF Spelled
    <3>2. CASE ~(i <= n)
      <4>1. i \in n + 1 .. NameWidth /\ i \in k + 1 .. NameWidth
        BY <1>0, <1>8, <3>2
      <4> QED
        BY <1>2, <1>3, <4>1 DEF Spelled
    <3> QED
      BY <3>1, <3>2
  <2> DEFINE g == e.filename
             h == f.filename
  <2>2. g \in [1 .. NameWidth -> Chars] /\ h \in [1 .. NameWidth -> Chars]
    BY <1>1
  <2> HIDE DEF g, h
  <2>3. g = h
    BY <2>1, <2>2, SameField DEF g, h
  <2> QED
    BY <2>3 DEF g, h
<1>10. e.ext = f.ext
  <2>1. ASSUME NEW i \in 1 .. ExtWidth PROVE e.ext[i] = f.ext[i]
    <3>1. CASE i <= m
      <4>1. m # 0 /\ i \in 1 .. m
        BY <1>4, <3>1
      <4>2. e.ext[i] = toupper(name[n + 1 + i])
        BY <1>2, <4>1 DEF Spelled
      <4>3. f.ext[i] = toupper(name[n + 1 + i])
        BY <1>3, <1>8, <4>1 DEF Spelled
      <4> QED
        BY <4>2, <4>3
    <3>2. CASE ~(i <= m)
      <4>1. i \in m + 1 .. ExtWidth /\ i \in l + 1 .. ExtWidth
        BY <1>0, <1>8, <3>2
      <4> QED
        BY <1>2, <1>3, <4>1 DEF Spelled
    <3> QED
      BY <3>1, <3>2
  <2> DEFINE g == e.ext
             h == f.ext
  <2>2. g \in [1 .. ExtWidth -> Chars] /\ h \in [1 .. ExtWidth -> Chars]
    BY <1>1
  <2> HIDE DEF g, h
  <2>3. g = h
    BY <2>1, <2>2, SameField DEF g, h
  <2> QED
    BY <2>3 DEF g, h
<1> QED
  BY <1>9, <1>10

\* The entries of a directory that have a name.
Having(dir, name) == {e \in Entries(dir) : HasName(e, name)}

\* A directory of the root is a directory.
LEMMA NamedDirectory ==
    ASSUME NEW dir \in NamedDirectories
    PROVE  dir \in Directories /\ \A i \in 1 .. Len(dir) : dir[i] \in fat_directory_item
<1>1. Root \in Directories
  BY DEF Directories
<1>2. \A i \in 1 .. Len(Root) : Root[i].kind = "dir" => Root[i].cluster \in DOMAIN Subdirs
  BY <1>1, TotalItems DEF Items
<1>3. dir \in Directories
  BY <1>1, <1>2 DEF NamedDirectories, Directories
<1>4. \A i \in 1 .. Len(dir) : dir[i] \in Items
  BY <1>3, TotalItems
<1> QED
  BY <1>3, <1>4 DEF Items

\* A name that no other entry reads as is found exactly in the entries that have it, and
\* those are in use and no pieces of long names.
LEMMA EntryMatches ==
    ASSUME NEW dir \in NamedDirectories, NEW i \in 1 .. Len(dir), NEW name \in Names, ~Misread(name)
    PROVE  /\ Matches(dir[i], name) <=> HasName(dir[i], name)
           /\ HasName(dir[i], name) => InUse(dir[i]) /\ ShortName(dir[i])
<1>1. dir[i] \in fat_directory_item
  BY NamedDirectory
<1>2. CASE InUse(dir[i]) /\ ShortName(dir[i]) /\ dir[i].filename[1] # Dot
  BY <1>1, <1>2, MatchesIs
<1>3. CASE ~(InUse(dir[i]) /\ ShortName(dir[i]) /\ dir[i].filename[1] # Dot)
  <2>1. ~Matches(dir[i], name)
    BY <1>3, Zenon DEF Misread, Matches
  <2> QED
    BY <1>1, <2>1, NamedMatches
<1> QED
  BY <1>2, <1>3

\* At most one entry has a name.
LEMMA OnlyOne ==
    ASSUME NEW dir \in NamedDirectories, NEW name \in Names, ~Misread(name),
           NEW e \in Having(dir, name), NEW f \in Having(dir, name)
    PROVE  e = f
<1>1. PICK i \in 1 .. Len(dir) : InUse(dir[i]) /\ e = dir[i]
  BY DEF Having, Entries
<1>2. PICK j \in 1 .. Len(dir) : InUse(dir[j]) /\ f = dir[j]
  BY DEF Having, Entries
<1>3. e \in fat_directory_item /\ f \in fat_directory_item /\ HasName(e, name) /\ HasName(f, name)
  BY <1>1, <1>2, NamedDirectory DEF Having
<1>4. e.filename = f.filename /\ e.ext = f.ext
  BY <1>3, NameDetermines
<1>5. i = j
  <2>1. ShortName(dir[i]) /\ ShortName(dir[j])
    BY <1>1, <1>2, <1>3, EntryMatches
  <2> QED
    BY <1>1, <1>2, <1>4, <2>1, EntriesAssumption
<1> QED
  BY <1>1, <1>2, <1>5

\* What fat16_find_item_in_directory finds is what has the name, and it finds it unless
\* deleted entries have shifted it.
LEMMA FindsNamed ==
    ASSUME NEW dir \in NamedDirectories, NEW name \in Names, ~Misread(name)
    PROVE  LET found == fat16_find_item_in_directory(dir, name)
           IN  /\ found # {} => found = Having(dir, name)
               /\ \A e \in Having(dir, name) : ~Shifted(dir, e) => found # {}
<1> DEFINE found == fat16_find_item_in_directory(dir, name)
           hits == Hits(dir, name)
<1>1. dir \in Directories /\ \A i \in 1 .. Len(dir) : dir[i] \in fat_directory_item
  BY NamedDirectory
<1>2. /\ \A i \in hits : i \in 1 .. Len(dir)
      /\ hits # {} => \E i \in hits : found = {dir[i]}
      /\ hits = {} => found = {}
  BY <1>1, FoundItem
<1>3. \A i \in 1 .. Len(dir) : Matches(dir[i], name) <=> HasName(dir[i], name)
  BY EntryMatches
<1>4. hits = {i \in 1 .. fat16_get_total_items_for_directory(dir) : Matches(dir[i], name)}
  BY DEF Hits, Matches
<1> HIDE DEF hits, found
<1>5. ASSUME found # {} PROVE found = Having(dir, name)
  <2>1. PICK i \in hits : found = {dir[i]}
    BY <1>2, <1>5
  <2>2. i \in 1 .. Len(dir) /\ HasName(dir[i], name)
    BY <1>2, <1>3, <1>4
  <2>3. InUse(dir[i])
    BY <2>2, EntryMatches
  <2>4. dir[i] \in Having(dir, name)
    BY <2>2, <2>3 DEF Having, Entries
  <2>5. \A x \in Having(dir, name) : x = dir[i]
    BY <2>4, OnlyOne
  <2> QED
    BY <2>1, <2>4, <2>5
<1>6. ASSUME NEW e \in Having(dir, name), ~Shifted(dir, e) PROVE found # {}
  <2>1. PICK i \in 1 .. fat16_get_total_items_for_directory(dir) : dir[i] = e
    BY <1>6 DEF Shifted
  <2>2. i \in 1 .. Len(dir)
    <3>1. fat16_get_total_items_for_directory(dir) \in 0 .. Len(dir) /\ dir \in Seq(fat_directory_item)
      BY <1>1, TotalItems
    <3> QED
      BY <3>1
  <2>3. Matches(dir[i], name)
    BY <1>3, <2>1, <2>2 DEF Having
  <2>4. i \in hits
    BY <1>4, <2>3
  <2> QED
    BY <1>2, <2>4
<1> QED
  BY <1>5, <1>6 DEF found

\* What lies below the directory that has a name.
LEMMA FindsBelow ==
    ASSUME NEW a \in Names, NEW b \in Names, ~Misread(a), ~Misread(b)
    PROVE  LET found == Below(fat16_find_item_in_directory(Root, a), b)
               named == UNION {Having(Subdirs[d.cluster], b) : d \in {x \in Having(Root, a) : x.kind = "dir"}}
           IN  /\ found # {} => found = named
               /\ named # {} /\ (\A dir \in Directories : \A e \in Entries(dir) :
                                   HasName(e, a) \/ HasName(e, b) => ~Shifted(dir, e))
                    => found # {}
<1> DEFINE first == fat16_find_item_in_directory(Root, a)
           found == Below(first, b)
           dirs == {x \in Having(Root, a) : x.kind = "dir"}
           named == UNION {Having(Subdirs[d.cluster], b) : d \in dirs}
           find(d) == fat16_find_item_in_directory(Subdirs[d.cluster], b)
<1>1. Root \in NamedDirectories
  BY DEF NamedDirectories
<1>2. /\ first # {} => first = Having(Root, a)
      /\ \A e \in Having(Root, a) : ~Shifted(Root, e) => first # {}
  BY <1>1, FindsNamed
<1>3. \A d \in dirs : Subdirs[d.cluster] \in NamedDirectories /\ Subdirs[d.cluster] \in Directories
  <2> SUFFICES ASSUME NEW d \in dirs PROVE Subdirs[d.cluster] \in NamedDirectories
    BY NamedDirectory
  <2>1. PICK i \in 1 .. Len(Root) : InUse(Root[i]) /\ d = Root[i]
    BY DEF Having, Entries
  <2>2. d.kind = "dir" /\ HasName(d, a) /\ d \in fat_directory_item
    BY <1>1, <2>1, NamedDirectory DEF Having
  <2>3. Root[i].filename[1] # Dot
    BY <2>1, <2>2, NamedFitsEntry
  <2> QED
    BY <2>1, <2>2, <2>3 DEF NamedDirectories
<1>4. \A d \in dirs : /\ find(d) # {} => find(d) = Having(Subdirs[d.cluster], b)
                      /\ \A e \in Having(Subdirs[d.cluster], b) : ~Shifted(Subdirs[d.cluster], e) => find(d) # {}
  BY <1>3, FindsNamed
<1>5. \A c, d \in dirs : c = d
  BY <1>1, OnlyOne
<1>6. first = Having(Root, a) => found = UNION {find(d) : d \in dirs}
  BY DEF Below
<1>7. first = {} => found = {}
  BY DEF Below
<1> HIDE DEF first, found, find, dirs
<1>8. ASSUME found # {} PROVE found = named
  <2>1. found = UNION {find(d) : d \in dirs}
    BY <1>2, <1>6, <1>7, <1>8
  <2>2. PICK d \in dirs : find(d) # {}
    BY <1>8, <2>1
  <2>3. dirs = {d}
    BY <1>5
  <2>4. found = find(d) /\ named = Having(Subdirs[d.cluster], b)
    BY <2>1, <2>3
  <2> QED
    BY <1>4, <2>2, <2>4
<1>9. ASSUME named # {}, \A dir \in Directories : \A e \in Entries(dir) :
                           HasName(e, a) \/ HasName(e, b) => ~Shifted(dir, e)
      PROVE  found # {}
  <2>1. PICK d \in dirs : Having(Subdirs[d.cluster], b) # {}
    BY <1>9
  <2>2. PICK e \in Having(Subdirs[d.cluster], b) : TRUE
    BY <2>1
  <2>3. Root \in Directories /\ Subdirs[d.cluster] \in Directories
    BY <1>3 DEF Directories
  <2>4. d \in Having(Root, a)
    BY DEF dirs
  <2>5. ~Shifted(Root, d) /\ ~Shifted(Subdirs[d.cluster], e)
    BY <1>9, <2>3, <2>4 DEF Having
  <2>6. first # {} /\ find(d) # {}
    BY <1>2, <1>4, <2>4, <2>5
  <2>7. found = UNION {find(x) : x \in dirs}
    BY <1>2, <1>6, <2>6
  <2> QED
    BY <2>6, <2>7
<1> QED
  BY <1>8, <1>9, Zenon DEF first, found, dirs

\* What the names lead to in the code is what they name on the disk, unless an entry that
\* is deleted, a link or a piece of a long name reads as one of them.
LEMMA NamedEntry ==
    ASSUME NEW names \in NameLists, ~(\E k \in 1 .. Len(names) : Misread(names[k]))
    PROVE  LET found == fat16_get_directory_entry(names)
           IN  /\ found # {} => found = Named(names)
               /\ Named(names) # {} /\ (\A dir \in Directories : \A e \in Entries(dir) :
                                          (\E k \in 1 .. Len(names) : HasName(e, names[k])) => ~Shifted(dir, e))
                    => found # {}
<1> DEFINE found == fat16_get_directory_entry(names)
           Present == \A dir \in Directories : \A e \in Entries(dir) :
                        (\E k \in 1 .. Len(names) : HasName(e, names[k])) => ~Shifted(dir, e)
<1>1. ASSUME NEW a \in Names, names = <<a>>
      PROVE  (found # {} => found = Named(names)) /\ (Named(names) # {} /\ Present => found # {})
  <2>1. names \in Seq(Seq(Chars)) /\ names # <<>> /\ Len(names) = 1 /\ names[1] = a
    BY <1>1, NameType
  <2>2. found = fat16_find_item_in_directory(Root, a)
    BY <2>1, DirectoryEntry
  <2>3. Named(names) = Having(Root, a)
    BY <2>1 DEF Named, Having
  <2>4. Root \in NamedDirectories /\ Root \in Directories
    BY DEF NamedDirectories, Directories
  <2> HIDE DEF found
  <2>5. (found # {} => found = Having(Root, a)) /\ (\A e \in Having(Root, a) : ~Shifted(Root, e) => found # {})
    <3>1. ~Misread(a)
      BY <2>1
    <3> QED
      BY <2>2, <2>4, <3>1, FindsNamed
  <2>6. Present => \A e \in Having(Root, a) : ~Shifted(Root, e)
    <3>1. 1 \in 1 .. Len(names) /\ names[1] = a
      BY <2>1
    <3> QED
      BY <2>4, <3>1, Zenon DEF Having
  <2> HIDE DEF Present
  <2> QED
    BY <2>3, <2>5, <2>6
<1>2. ASSUME NEW a \in Names, NEW b \in Names, names = <<a, b>>
      PROVE  (found # {} => found = Named(names)) /\ (Named(names) # {} /\ Present => found # {})
  <2>1. names \in Seq(Seq(Chars)) /\ names # <<>> /\ Len(names) = 2 /\ names[1] = a /\ names[2] = b
    BY <1>2, NameType
  <2>2. found = Below(fat16_find_item_in_directory(Root, a), b)
    BY <2>1, DirectoryEntry
  <2> DEFINE named == UNION {Having(Subdirs[d.cluster], b) : d \in {x \in Having(Root, a) : x.kind = "dir"}}
             Kept == \A dir \in Directories : \A e \in Entries(dir) :
                       HasName(e, a) \/ HasName(e, b) => ~Shifted(dir, e)
  <2>3. {x \in Having(Root, a) : x.kind = "dir"} = {x \in Entries(Root) : HasName(x, a) /\ x.kind = "dir"}
    BY DEF Having
  <2>4. Named(names) = UNION {{e \in Entries(Subdirs[d.cluster]) : HasName(e, b)} :
                                d \in {x \in Entries(Root) : HasName(x, a) /\ x.kind = "dir"}}
    BY <2>1 DEF Named
  <2>5. Named(names) = named
    BY <2>3, <2>4 DEF Having
  <2> HIDE DEF found
  <2>6. (found # {} => found = named) /\ (named # {} /\ Kept => found # {})
    <3>1. 1 \in 1 .. Len(names) /\ 2 \in 1 .. Len(names)
      BY <2>1
    <3>2. ~Misread(a) /\ ~Misread(b)
      BY <2>1, <3>1, Zenon
    <3> QED
      BY <2>2, <3>2, FindsBelow, Zenon
  <2>7. Present => Kept
    <3>1. 1 \in 1 .. Len(names) /\ names[1] = a /\ 2 \in 1 .. Len(names) /\ names[2] = b
      BY <2>1
    <3> QED
      BY <3>1, Zenon
  <2> HIDE DEF Present, Kept, named
  <2> QED
    BY <2>5, <2>6, <2>7
<1>3. (found # {} => found = Named(names)) /\ (Named(names) # {} /\ Present => found # {})
  <2> HIDE DEF found, Present
  <2> QED
    BY <1>1, <1>2 DEF NameLists
<1> QED
  BY <1>3, Zenon

-----------------------------------------------------------------------------
\* Until it is closed, a descriptor stands for the file that its path names
\* (HandleIsNamedFile), for every disk and whatever is opened, closed and reused in
\* between, unless an entry that is deleted, a link or a piece of a long name reads as one
\* of the names: only through such an entry is a path opened that names nothing.
THEOREM HandlesNameFiles == Spec => []HandleIsNamedFile
<1>1. FInv => HandleIsNamedFile
  <2> SUFFICES ASSUME FInv, NEW fd \in DOMAIN opened, NEW names \in NameLists, opened[fd] = Written(names),
                      ~(\E k \in 1 .. Len(names) : Misread(names[k]))
               PROVE  Named(names) # {} /\ file_descriptors[fd].item = Named(names)
    BY DEF HandleIsNamedFile
  <2> DEFINE item == file_descriptors[fd].item
  <2>1. /\ pathparser_parse(Written(names)) # <<>> /\ item # {}
        /\ item = fat16_get_directory_entry(pathparser_parse(Written(names)))
    BY DEF FInv, OpenInv
  <2>2. Len(Written(names)) <= MAEROS_MAX_PATH
    <3>1. ~(Len(Written(names)) > MAEROS_MAX_PATH)
      BY <2>1 DEF pathparser_parse
    <3>2. Written(names) \in Seq(Chars) /\ MAEROS_MAX_PATH \in Nat
      BY ArgumentAssumption, SizesAssumption DEF FInv, OpenInv, Chars
    <3>3. Len(Written(names)) \in Nat
      BY <3>2
    <3> QED
      BY <3>1, <3>2, <3>3
  <2>3. item = fat16_get_directory_entry(names)
    BY <2>1, <2>2, ParsedWritten
  <2> HIDE DEF item
  <2>4. item = Named(names)
    BY <2>1, <2>3, NamedEntry
  <2> QED
    BY <2>1, <2>4 DEF item
<1> QED
  BY <1>1, FilesInit, FilesStep, PTL DEF Spec

\* A path that names something is not too long.
LEMMA NamedFits ==
    ASSUME NEW names \in NameLists, Named(names) # {}
    PROVE  Len(Written(names)) <= MAEROS_MAX_PATH
<1>0. NameWidth \in Nat /\ ExtWidth \in Nat /\ MAEROS_MAX_PATH \in Nat
  BY SizesAssumption
<1>1. Root \in NamedDirectories
  BY DEF NamedDirectories
<1>2. \A e \in Entries(Root) : e \in Items
  <2>1. Root \in Directories
    BY DEF Directories
  <2> QED
    BY <2>1, TotalItems DEF Entries
<1>3. ASSUME NEW a \in Names, names = <<a>> PROVE Len(Written(names)) <= MAEROS_MAX_PATH
  <2>1. Len(names) = 1 /\ names[1] = a
    BY <1>3
  <2>2. PICK e \in Entries(Root) : HasName(e, a)
    BY <2>1 DEF Named
  <2>3. Len(a) <= NameWidth + 1 + ExtWidth
    BY <1>2, <2>2, NamedFitsEntry DEF Items
  <2>4. Len(Written(names)) = 3 + Len(a) /\ Len(a) \in Nat
    BY <1>3, PathOfOne, NameType
  <2> QED
    BY <1>0, <2>3, <2>4, PathAssumption
<1>4. ASSUME NEW a \in Names, NEW b \in Names, names = <<a, b>> PROVE Len(Written(names)) <= MAEROS_MAX_PATH
  <2>1. Len(names) = 2 /\ names[1] = a /\ names[2] = b
    BY <1>4
  <2>2. Named(names) = UNION {{e \in Entries(Subdirs[d.cluster]) : HasName(e, b)} :
                                d \in {x \in Entries(Root) : HasName(x, a) /\ x.kind = "dir"}}
    BY <2>1 DEF Named
  <2>3. PICK d \in {x \in Entries(Root) : HasName(x, a) /\ x.kind = "dir"} :
               {e \in Entries(Subdirs[d.cluster]) : HasName(e, b)} # {}
    BY <2>2
  <2>4. PICK e \in Entries(Subdirs[d.cluster]) : HasName(e, b)
    BY <2>3
  <2>5. HasName(d, a) /\ d \in fat_directory_item /\ Subdirs[d.cluster] \in Directories
    BY <1>2, <2>3 DEF Items, Directories
  <2>6. e \in fat_directory_item
    BY <2>5, TotalItems DEF Entries, Items
  <2>7. Len(a) <= NameWidth + 1 + ExtWidth /\ Len(b) <= NameWidth + 1 + ExtWidth
    BY <2>4, <2>5, <2>6, NamedFitsEntry
  <2>8. Len(Written(names)) = 4 + Len(a) + Len(b) /\ Len(a) \in Nat /\ Len(b) \in Nat
    BY <1>4, PathOfTwo, NameType
  <2> QED
    BY <1>0, <2>7, <2>8, PathAssumption
<1> QED
  BY <1>3, <1>4 DEF NameLists

\* An open for reading is refused only for a reason (RefusedForReason): no file system, no
\* free descriptor, no such name, an entry that is no file but reads as one of the names, or
\* an entry that deleted ones have shifted.
THEOREM RefusalsHaveReasons == Spec => []RefusedForReason
<1>1. FInv => RefusedForReason
  <2> SUFFICES ASSUME FInv, last.op = "refused", last.mode = "r", filesystem # "none", FreeDescriptors # {},
                      NEW names \in NameLists, last.path = Written(names), Named(names) # {},
                      ~(\E k \in 1 .. Len(names) : Misread(names[k])),
                      ~(\E dir \in {Root} \cup {Subdirs[c] : c \in DOMAIN Subdirs} :
                          \E e \in Entries(dir) :
                            Shifted(dir, e) /\ \E k \in 1 .. Len(names) : HasName(e, names[k]))
               PROVE  FALSE
    BY DEF RefusedForReason
  <2> DEFINE path == Written(names)
  <2>1. Found(path, "r") = {}
    BY DEF FInv, LastInv
  <2>2. pathparser_parse(path) = names
    BY NamedFits, ParsedWritten
  <2>3. names # <<>> /\ path[1] = 48
    <3>1. ASSUME NEW a \in Names, names = <<a>> PROVE names # <<>> /\ path[1] = 48
      BY <3>1, PathOfOne
    <3>2. ASSUME NEW a \in Names, NEW b \in Names, names = <<a, b>> PROVE names # <<>> /\ path[1] = 48
      BY <3>2, PathOfTwo
    <3> HIDE DEF path
    <3> QED
      BY <3>1, <3>2 DEF NameLists
  <2> HIDE DEF path
  <2>4. disk_get(path)
    BY <2>3 DEF disk_get
  <2>5. Found(path, "r") = fat16_get_directory_entry(names)
    BY <2>2, <2>3, <2>4 DEF Found, fat16_open
  <2>6. \A dir \in Directories : \A e \in Entries(dir) :
          (\E k \in 1 .. Len(names) : HasName(e, names[k])) => ~Shifted(dir, e)
    BY Zenon DEF Directories
  <2>7. fat16_get_directory_entry(names) # {}
    BY <2>6, NamedEntry, Zenon
  <2> QED
    BY <2>1, <2>5, <2>7
<1> QED
  BY <1>1, FilesInit, FilesStep, PTL DEF Spec
=============================================================================
