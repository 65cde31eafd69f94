--------------------------- MODULE MCJobRegistry ----------------------------
(* Small instances of JobRegistry for TLC.                                 *)
EXTENDS JobRegistry, TLC

CONSTANTS j1, j2, j3, t1, t2, l1, l2, s1, s2

\* Ids, threads, listeners and sessions are only compared for equality, so
\* permuting them maps behaviours to behaviours.
Symmetry == Permutations(Jobs) \cup Permutations(Threads)
              \cup Permutations(Listeners) \cup Permutations(Sessions)
=============================================================================
