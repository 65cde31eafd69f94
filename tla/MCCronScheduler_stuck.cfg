SPECIFICATION Spec
CONSTANTS
  j1 = j1 r1 = r1
  Jobs = {j1}
  Runs = {r1}
  NoJob = NoJob
  NoRun = NoRun
  WriteFails = FALSE
INVARIANT RunningMeansRun
CHECK_DEADLOCK FALSE
