------------------------------- MODULE MCHeap -------------------------------
(***************************************************************************)
(* Instances of Heap for TLC.                                              *)
(***************************************************************************)
EXTENDS Heap

\* Requests of one, two, three and seven blocks of 4, aligned and not: the last is
\* larger than the pool of six.
MCSizes == {1, 8, 11, 25}

\* Free memory, the 0x3C of the boot sector's jump, and its 0xEB, which has bit 7.
MCBootBytes == {0, 60, 235}
=============================================================================
