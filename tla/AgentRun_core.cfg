SPECIFICATION MCSpec
CONSTANTS
  NoCall = NoCall
  NoRun = NoRun
  main = main
  s1 = s1
  r1 = r1
  r2 = r2
  r3 = r3
  t1 = t1
  t2 = t2
  x = x
  y = y
  Sessions = {main, s1}
  Persistent = {main}
  Main = main
  RunIds = {r1, r2, r3}
  JobRuns = {r3}
  Tools = {t1}
  Signatures = {x}
  MaxIterations = 2
  MaxToolErrors = 1
  MaxResets = 1
  LoopWindow = 10
  LoopRepeats = 5
  MaxBatch = 2
  MaxCrashes = 1
SYMMETRY RunSymmetry
INVARIANTS HistoryRebuilds TablesFollowRuns
CHECK_DEADLOCK FALSE
