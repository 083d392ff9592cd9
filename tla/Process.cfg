\* Three processes, one semaphore, tables of two slots.
CONSTANTS
  Procs = {p1, p2, p3}
  Root = p1
  Sems = {s1}
  NumSlots = 2
  Codes = {ok, bad}
  MaxCount = 1
  MaxExecl = 1
  None = none
SPECIFICATION Spec
SYMMETRY Symmetry
INVARIANTS
  RefsExact
  WaitSeesExitCode
CHECK_DEADLOCK FALSE
