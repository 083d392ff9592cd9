\* wait returns: tables of one slot, which two children fill.
CONSTANTS
  Procs = {p1, p2, p3}
  Root = p1
  Sems = {}
  NumSlots = 1
  Codes = {ok}
  MaxCount = 1
  MaxExecl = 1
  None = none
SPECIFICATION FairSpec
PROPERTY WaitReturns
CHECK_DEADLOCK FALSE
