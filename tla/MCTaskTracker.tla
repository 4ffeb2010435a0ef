---------------------------- MODULE MCTaskTracker ----------------------------
(***************************************************************************)
(* TaskTracker with three tasks and two callers: enough for a guard that   *)
(* drops while another is taken, for two guards that both see the count go *)
(* to zero, and for two concurrent shutdown calls.                         *)
(***************************************************************************)
EXTENDS TaskTracker, TLC

TaskSymmetry == Permutations(Tasks)
=============================================================================
