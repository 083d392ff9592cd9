\* Three threads, one initial permit, at most two stored permits.
CONSTANTS
  Procs = {p1, p2, p3}
  Initial = 1
  MaxCount = 2
  NoProc = none
SPECIFICATION FairSpec
INVARIANTS
  TypeOK
  NoStrandedWaiter
  WokenIsSwitchedOut
PROPERTIES
  FlagRestored
  ImplementsAtomic
CHECK_DEADLOCK FALSE
