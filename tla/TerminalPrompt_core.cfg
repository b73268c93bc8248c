SPECIFICATION FairSpec
CONSTANTS
  a1 = a1  a2 = a2  yes = yes  no = no  dismiss = dismiss
  Notes = {a1, a2}
  Approvals = {a1, a2}
  Reminders = {a2}
  Actions <- MCActions
  Sessions = {s1, s2}
  Hidden = {s2}
  EventCap = 2
  MaxActs = 1
  None = None
PROPERTIES ActsOnShown ApprovalsGetListed
CHECK_DEADLOCK FALSE
