-------------------------- MODULE MCProcessMemory ---------------------------
(***************************************************************************)
(* Instances of ProcessMemory for TLC.                                     *)
(***************************************************************************)
EXTENDS ProcessMemory

\* One block, two blocks, one more than the pool has, and a request that reaches the
\* kernel from wherever it starts.
MCSizes == {3, 8, 52, 104}
MCAllLoads == {"elf", "binary", "elf unmappable", "no file", "unreadable", "binary unreadable"}
=============================================================================
