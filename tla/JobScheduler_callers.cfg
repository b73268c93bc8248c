SPECIFICATION FairSpec
CONSTANTS
  None = None
  Err = Err
  NoJob = NoJob
  NoRun = NoRun
  j1 = j1
  j2 = j2
  r1 = r1
  r2 = r2
  r3 = r3
  JobIds = {j1}
  NamedIds = {j1}
  RunIds = {r1, r2, r3}
  Schedules <- Recurring
  Backoff <- Backoffs
  Horizon = 4
  MaxDelay = 1
  Cancels = FALSE
  MaxTime = 3
  MaxCalls = 3
  MaxManual = 1
  MaxCrashes = 0
  MaxStops = 1
  MaxSaveFails = 1
PROPERTIES MarkersAreTrue TimerGoesOn
CHECK_DEADLOCK FALSE
