---------------------------- MODULE MCScheduler -----------------------------
(***************************************************************************)
(* Instances of Scheduler for TLC: addresses are model values, slots the   *)
(* first numbers.                                                          *)
(***************************************************************************)
EXTENDS Scheduler
=============================================================================
