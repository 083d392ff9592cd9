\* Safety and progress of the lock: two CPUs, each with a thread and a handler.
CONSTANT CPUs = {c1, c2}
SPECIFICATION FairSpec
INVARIANTS
  MutualExclusion
  HolderUninterrupted
  NoLostWakeup
PROPERTIES
  FlagRestored
  Progress
