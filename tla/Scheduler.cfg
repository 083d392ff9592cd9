\* Safety of the scheduler: two cores, four threads.
CONSTANTS
  Cores = {c1, c2}
  Threads = {reaper, main, t1, t2}
  Reaper = reaper
  Main = main
  NoTCB = none
SYMMETRY Symmetry
SPECIFICATION Spec
INVARIANTS
  OneHome
  PreemptionSafe
  CurrentIsLoaded
CHECK_DEADLOCK FALSE
