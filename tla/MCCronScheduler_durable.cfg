SPECIFICATION Spec
CONSTANTS
  j1 = j1 j2 = j2 r1 = r1
  Jobs = {j1, j2}
  Runs = {r1}
  NoJob = NoJob
  NoRun = NoRun
  WriteFails = TRUE
SYMMETRY Symmetry
INVARIANTS CronTypeOK AckedIsDurable EntriesAgree RunningIsReset
PROPERTY ImplementsLedger
CHECK_DEADLOCK FALSE
