SPECIFICATION Spec
CONSTANTS
  f1 = f1  f2 = f2
  Main = main
  NewTabs = {n1}
  Listed = {}
  Runs <- MCRuns
  Fresh <- MCFresh
  Scripts <- MCScripts
  OutCap = 2
  ChCap = 1
  MaxMoves = 2
  None = None
INVARIANTS AnswersAtHome BusyMeansWork
CHECK_DEADLOCK FALSE
