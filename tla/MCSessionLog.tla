---------------------------- MODULE MCSessionLog ----------------------------
(* Small instances of SessionLog for TLC.                                  *)
EXTENDS SessionLog

CONSTANTS f1, f2, o1, o2

MCLimits == {-1, 0, 1, 2}

\* Renderings are only compared with each other: which one comes first makes no
\* difference, so one of the initial states is enough.
MCInit == Init /\ rendering = 1
MCSpec == MCInit /\ [][Next]_vars
=============================================================================
