------------------------------ MODULE MCFiles -------------------------------
(***************************************************************************)
(* A small disk for TLC: sectors of 4 bytes, clusters of two sectors,      *)
(* names of two characters and one.  The root directory has the file       *)
(* FF.X, the directory D, a deleted entry and behind it a piece of a long  *)
(* name, the file H of two clusters and the file K; the directory has its  *)
(* link ".", a deleted entry and the files FF.X and FF.                    *)
(***************************************************************************)
EXTENDS Files

D == 68
F == 70
H == 72
K == 75
X == 88

Entry(filename, ext, kind, cluster, size) ==
    [filename |-> filename, ext |-> <<ext>>, kind |-> kind, cluster |-> cluster, size |-> size]

MCRoot ==
    <<Entry(<<F, F>>, X, "file", 2, 7), Entry(<<D, Blank>>, Blank, "dir", 3, 0),
      Entry(<<DeletedMark, Blank>>, Blank, "file", 5, 3),
      Entry(<<65, H + 32>>, 0, "file", 0, 0),
      Entry(<<H, Blank>>, Blank, "file", 4, 13), Entry(<<K, Blank>>, Blank, "file", 7, 2)>>
MCSubdirs ==
    [c \in {3} |-> <<Entry(<<Dot, Blank>>, Blank, "dir", 3, 0),
                     Entry(<<DeletedMark, Blank>>, Blank, "file", 6, 2),
                     Entry(<<F, F>>, X, "file", 6, 5), Entry(<<F, F>>, Blank, "file", 8, 3)>>]
MCFat == [c \in 0 .. 3 |-> 0]

\* Lower case is 32 above upper case.
ff == <<F + 32, F + 32>>
ffx == ff \o <<Dot, X + 32>>
d == <<D + 32>>
piece == <<97, H + 32>>
MCNames == {ffx, ff, d, <<H>>, <<K + 32>>, <<F>> \o ff \o <<Dot, X>>,
            <<DeletedMark>>, <<Dot>>, piece}

\* Files in either case, a directory, a path through a file, names that are missing, too
\* wide or shifted, the mark of a deleted entry, a link, a piece of a long name, a trailing
\* slash, the root, another drive, no drive, and one that is too long.
MCPaths ==
    {Written(names) : names \in {<<ffx>>, <<<<H>>>>, <<d>>, <<<<K + 32>>>>, <<ff>>, <<d, ffx>>,
                                 <<d, ff>>, <<d, <<H>>>>, <<ffx, ff>>,
                                 <<<<F>> \o ff \o <<Dot, X>>>>,
                                 <<<<DeletedMark>>>>, <<d, <<Dot>>>>, <<piece>>}}
      \cup {<<48, Colon, Slash>> \o rest :
              rest \in {<<>>, <<K, Slash>>,
                       d \o <<Slash>> \o ffx \o <<Slash>> \o ff \o <<Slash>>}}
      \cup {<<49, Colon, Slash>> \o ffx, ffx}

\* Data that looks like the end of a chain, and like a cluster.
MCDataWords == {0, 5}
=============================================================================
