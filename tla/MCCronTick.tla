----------------------------- MODULE MCCronTick -----------------------------
(***************************************************************************)
(* CronTick for TLC: three requests on two processes with two connections   *)
(* each.  The requests, the processes and the jobs are interchangeable.     *)
(***************************************************************************)
EXTENDS CronTick, TLC

Symmetry == Permutations(Ticks) \cup Permutations(Procs) \cup Permutations(Jobs)
=============================================================================
