---------------------------- MODULE MCHeapLoops -----------------------------
(***************************************************************************)
(* Instances of HeapLoops for TLC.                                         *)
(***************************************************************************)
EXTENDS HeapLoops

\* Requests of one, two and six blocks of 4 in a pool of five.
MCSizes == {1, 8, 21}

MCBootBytes == {60, 235}
=============================================================================
