SPECIFICATION Spec
CONSTANTS
  j1 = j1 j2 = j2 j3 = j3 t1 = t1 t2 = t2 l1 = l1 l2 = l2 s1 = s1 s2 = s2
  Jobs = {j1, j2, j3}
  Sessions = {}
  Threads = {}
  Listeners = {}
  Streams = {FALSE}
  Texts = {""}
  MaxRetained = 1
  MaxReads = 0
  NoOwner = NoOwner
  NoJob = NoJob
SYMMETRY Symmetry
INVARIANTS OrderMatchesTable Retention
PROPERTIES OldestEndedGoFirst
CHECK_DEADLOCK FALSE
