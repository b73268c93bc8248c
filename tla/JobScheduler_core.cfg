SPECIFICATION Spec
CONSTANTS
  None = None
  Err = Err
  NoJob = NoJob
  NoRun = NoRun
  j1 = j1
  j2 = j2
  r1 = r1
  r2 = r2
  r3 = r3
  JobIds = {j1, j2}
  NamedIds = {}
  RunIds = {r1, r2}
  Schedules <- Mixed
  Backoff <- Backoffs
  Horizon = 4
  MaxDelay = 1
  Cancels = FALSE
  MaxTime = 3
  MaxCalls = 3
  MaxManual = 0
  MaxCrashes = 1
  MaxStops = 1
  MaxSaveFails = 1
SYMMETRY Symmetry
INVARIANTS MemoryOnDisk NoDoubleFire 
PROPERTIES OneShotsRetried KeepsLedger
CHECK_DEADLOCK FALSE
