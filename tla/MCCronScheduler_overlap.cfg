SPECIFICATION Spec
CONSTANTS
  j1 = j1 r1 = r1 r2 = r2
  Jobs = {j1}
  Runs = {r1, r2}
  NoJob = NoJob
  NoRun = NoRun
  WriteFails = FALSE
INVARIANT OneRunAtATime
CHECK_DEADLOCK FALSE
