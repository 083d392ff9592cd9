\* Liveness of the scheduler: two cores, three threads.
CONSTANTS
  Cores = {c1, c2}
  Threads = {reaper, main, t1}
  Reaper = reaper
  Main = main
  NoTCB = none
SPECIFICATION FairSpec
PROPERTIES
  ReadyRuns
  Reclaimed
CHECK_DEADLOCK FALSE
