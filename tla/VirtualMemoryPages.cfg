\* Two pages on one core: the loops of fork and execl, and faults on different pages.
CONSTANTS
  Cores = {c1}
  Procs = {p1, p2, p3}
  Root = p1
  NumPages = 2
  RegionOf <- ApicRegion
  NumFrames = 8
  MaxValue = 1
  Idle = idle
SPECIFICATION Spec
SYMMETRY Symmetry
INVARIANTS
  MemoryIsOwn
  FaultServed
CHECK_DEADLOCK FALSE
CONSTRAINTS
  SixOrNoneFreed
  TwoBorn
