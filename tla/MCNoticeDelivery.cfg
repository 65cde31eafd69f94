SPECIFICATION FairSpec
CONSTANTS
  r1 = r1
  r2 = r2
  n1 = n1
  n2 = n2
  Runs = {r1, r2}
  NoRun = NoRun
  Notices = {n1, n2}
  MaxIterations = 2
  MaxFrames = 1
  RunFails = TRUE
  MaxUserActions = 1
  OpenFails = TRUE
INVARIANTS DeliveryTypeOK OnePlace SingleReader RunsAreRead NoStuckTurn WaitsOnlyAfterInterrupt NothingLeftBehind NoTurnIsCutShort
PROPERTIES CompletedTurnSawAll Delivered ImplementsLifecycle
CHECK_DEADLOCK FALSE
