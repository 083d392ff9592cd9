\* no_preempt after yield() returned early.
CONSTANTS
  Cores = {c1, c2}
  Threads = {reaper, main}
  Reaper = reaper
  Main = main
  NoTCB = none
SPECIFICATION Spec
INVARIANT Preemptible
CHECK_DEADLOCK FALSE
