SPECIFICATION Spec
CONSTANTS
  None = None
  a1 = a1
  a2 = a2
  s1 = s1
  s2 = s2
  r1 = r1
  r2 = r2
  c1 = c1
  c2 = c2
  in = in
  out = out
  Sessions = {s1, s2}
  Agents = {a1, a2}
  RunIds = {r1, r2}
  Terminals = {c1}
  Doubled = {}
  Inboxes = {c2}
  Calls <- MCCalls
  Tier <- MCTier
  Writers = {"shell", "write"}
  Roots = {in}
  NotesCap = 1
  BusCap = 1
  Overlaps = FALSE
  MaxRequests = 2
  MaxCrashes = 1
SYMMETRY Symmetry
INVARIANT AlwaysIsSessionScoped
CHECK_DEADLOCK FALSE
