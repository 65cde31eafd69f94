-------------------------- MODULE MCCronScheduler ---------------------------
(* Small instances of CronScheduler.  Job ids and run slots are only ever   *)
(* compared, so permuting them changes nothing.                             *)
EXTENDS CronScheduler, TLC

Symmetry == Permutations(Jobs) \cup Permutations(Runs)
=============================================================================
