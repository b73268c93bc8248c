SPECIFICATION LiveSpec
CONSTANTS
  NoCall = NoCall
  NoRun = NoRun
  main = main
  s1 = s1
  r1 = r1
  r2 = r2
  r3 = r3
  t1 = t1
  t2 = t2
  x = x
  y = y
  Sessions = {main}
  Persistent = {main}
  Main = main
  RunIds = {r1, r2}
  JobRuns = {r2}
  Tools = {t1}
  Signatures = {x, y}
  MaxIterations = 3
  MaxToolErrors = 1
  MaxResets = 2
  LoopWindow = 2
  LoopRepeats = 1
  MaxBatch = 1
  MaxCrashes = 0
INVARIANTS ToolFailuresBounded
PROPERTIES TurnsEnd
CHECK_DEADLOCK FALSE
