-------------------------- MODULE MCBackgroundJobs --------------------------
(* Small instances of BackgroundJobs for TLC.                              *)
EXTENDS BackgroundJobs, TLC

CONSTANTS j1, j2, t1, t2

\* Job ids and threads are only compared for equality.
Symmetry == Permutations(Jobs) \cup Permutations(Threads)
=============================================================================
