SPECIFICATION FairSpec
CONSTANTS
  d1 = d1  d2 = d2  c1 = c1
  Daemons = {d1, d2}
  Clients = {c1}
  Callers = {c1}
  Kinds = {"run", "clear", "shutdown"}
  MaxParts = 1
  ChanCap = 1
  None = None
INVARIANTS AloneIsReachable
PROPERTIES  IdleDaemonStops
CHECK_DEADLOCK FALSE
