\* Two processes on two cores.  A page, its table, the APIC's table and a directory for each.
CONSTANTS
  Cores = {c1, c2}
  Procs = {p1, p2}
  Root = p1
  NumPages = 1
  RegionOf <- FirstRegion
  NumFrames = 8
  MaxValue = 1
  Idle = idle
SPECIFICATION Spec
SYMMETRY Symmetry
INVARIANTS
  FrameExclusive
  TlbCoherent
CHECK_DEADLOCK FALSE
