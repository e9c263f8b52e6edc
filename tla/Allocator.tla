----------------------------- MODULE Allocator -----------------------------
(***************************************************************************)
(* What a block allocator promises its callers, with no table and no       *)
(* search order: every extent handed out has all the blocks asked for, is  *)
(* disjoint from every extent that is still held, and only its holder's    *)
(* free takes it back.                                                     *)
(*                                                                         *)
(* One exception is made for this kernel and has an action of its own,     *)
(* AllocShort: when no run of the pool is long enough, the free blocks at  *)
(* the end of the pool are handed out as if they were.                     *)
(***************************************************************************)
EXTENDS Integers

CONSTANTS
    TotalBlocks,  \* blocks in the pool
    Counts        \* block counts that are asked for

VARIABLE live  \* the extents handed out and not yet freed

\* The blocks of the pool that an extent covers.
Extent(a) == {j \in 0 .. TotalBlocks - 1 : a.start <= j /\ j < a.start + a.blocks}

Unheld == {j \in 0 .. TotalBlocks - 1 : \A a \in live : j \notin Extent(a)}

\* n blocks of the pool from s on, all free.
FreeRun(s, n) == s .. s + n - 1 \subseteq Unheld

Init == live = {}

Alloc(a) ==
    /\ a.blocks >= 1 /\ FreeRun(a.start, a.blocks)
    /\ live' = live \cup {a}

AllocShort(a) ==
    /\ a.start + a.blocks > TotalBlocks
    /\ FreeRun(a.start, TotalBlocks - a.start)
    /\ \A s \in 0 .. TotalBlocks - 1 : ~FreeRun(s, a.blocks)
    /\ live' = live \cup {a}

Free(a) == live' = live \ {a}

Next ==
    \/ \E s \in 0 .. TotalBlocks - 1, n \in Counts :
         LET a == [start |-> s, blocks |-> n] IN Alloc(a) \/ AllocShort(a)
    \/ \E a \in live : Free(a)

Spec == Init /\ [][Next]_live
=============================================================================
